---- MODULE Spec2Model ----
(***************************************************************************)
(* Lead generation pipeline (src/lead_generation_pipeline.py): the data    *)
(* models JobListing, Contact and EnrichedLead, the pain scoring of        *)
(* JobFilter, the summary fallback of JobSummarizer and the orchestration  *)
(* of LeadGenerationPipeline.run.                                          *)
(*                                                                         *)
(* Python strings are sequences of one-character strings, so that lower()  *)
(* and the substring test `kw in s` are computed, not assumed.  Python's   *)
(* None is the value None below; "" is the empty sequence.                 *)
(***************************************************************************)
EXTENDS Integers, Sequences, FiniteSets, TLC

VARIABLES
    pc,              \* position of LeadGenerationPipeline.run
    all_jobs,        \* run: all_jobs, the JobListing objects (pain_score is mutable)
    fi,              \* filter_and_score: position of `for job in jobs`
    qualified_jobs,  \* filter_and_score: qualified_jobs, references (indices) into all_jobs
    li,              \* run: position of `for job in qualified_jobs`
    lead,            \* run: the EnrichedLead of the current iteration
    enriched_leads,  \* run: enriched_leads, the export batch
    has_api,         \* JobSummarizer.has_api
    contact_data,    \* run: contact_data, what enrich_company returned last
    log,             \* the records run and its callees handed to the logger
    df,              \* the DataFrame run returns
    files,           \* the number of CSV files run has written
    apollo_key,      \* Config.APOLLO_API_KEY, as the environment gave it
    exit_status,     \* how main ended: "running", "exit 0" (it returned) or "exit 1"
    enrich_calls,    \* the jobs run called enricher.enrich_company for, in call order
    summary_calls,   \* the jobs run called summarizer.generate_summary for, in call order
    score_writes,    \* how often filter_and_score assigned each job's pain_score
    tjob,            \* a JobListing whose JobFilter methods are called directly
    tdone,           \* the JobFilter methods called on tjob so far
    tscore,          \* what calculate_pain_score(tjob) returned
    texcluded,       \* what should_exclude(tjob) returned
    tlead,           \* an EnrichedLead whose methods are called directly
    targs,           \* the contacts add_contact was called with, in call order
    tverdict,        \* what the last tlead.is_qualified() returned
    top,             \* the last operation on tlead or its job
    trow,            \* what tlead.to_csv_row() returned
    tcall,           \* position of a direct call of ApolloEnricher.enrich_company
    tresponse,       \* enrich_company: what requests.post raised or returned
    tresult,         \* what enrich_company returned
    traised,         \* the exception enrich_company let through, "" if none
    cache,           \* ApolloEnricherWithCache.cache
    cache_hits,      \* ApolloEnricherWithCache.cache_hits
    api_calls,       \* ApolloEnricherWithCache.api_calls
    ccalls,          \* the calls of the cached enrich_company so far, with their outcome
    bpc,             \* position of enrich_batch_with_free_tier
    companies,       \* enrich_batch_with_free_tier: companies
    free_tier_limit, \* enrich_batch_with_free_tier: free_tier_limit
    bi,              \* enrich_batch_with_free_tier: position of the loop (i + 1)
    results,         \* enrich_batch_with_free_tier: results
    credits_used,    \* enrich_batch_with_free_tier: credits_used
    searches         \* how many times the batch called enricher.enrich_company

main_vars == <<apollo_key, exit_status>>
call_vars == <<enrich_calls, summary_calls>>
run_vars == <<pc, all_jobs, fi, qualified_jobs, li, lead, enriched_leads, has_api,
              contact_data, log, df, files, main_vars, call_vars, score_writes>>
score_vars == <<tjob, tdone, tscore, texcluded>>
lead_vars == <<tlead, targs, tverdict, top, trow>>
apollo_vars == <<tcall, tresponse, tresult, traised>>
cache_vars == <<cache, cache_hits, api_calls, ccalls>>
batch_vars == <<bpc, companies, free_tier_limit, bi, results, credits_used, searches>>
tier_vars == <<cache_vars, batch_vars>>
vars == <<run_vars, score_vars, lead_vars, apollo_vars, tier_vars>>

---------------------------------------------------------------------------
(* Python values *)

None == <<"None">>

\* bool(x) of a str-or-None value: None and "" are falsy
Truthy(x) == x # None /\ x # <<>>

\* dict.get(key, default)
Get(data, key, default) == IF key \in DOMAIN data THEN data[key] ELSE default

Max(a, b) == IF a >= b THEN a ELSE b
Min(a, b) == IF a <= b THEN a ELSE b

UpperAlpha == <<"A","B","C","D","E","F","G","H","I","J","K","L","M","N","O","P","Q","R","S","T","U","V","W","X","Y","Z">>
LowerAlpha == <<"a","b","c","d","e","f","g","h","i","j","k","l","m","n","o","p","q","r","s","t","u","v","w","x","y","z">>

LowerChar(c) ==
    IF \E i \in 1..26 : UpperAlpha[i] = c
    THEN LowerAlpha[CHOOSE i \in 1..26 : UpperAlpha[i] = c]
    ELSE c

\* str.lower()
Lower(s) == [i \in 1..Len(s) |-> LowerChar(s[i])]

\* `kw in s` for two strings
Contains(s, kw) ==
    \E i \in 1..(Len(s) - Len(kw) + 1) : SubSeq(s, i, i + Len(kw) - 1) = kw

\* any(kw in s for kw in kws)
ContainsAny(s, kws) == \E k \in 1..Len(kws) : Contains(s, kws[k])

---------------------------------------------------------------------------
(* Config *)

MIN_PAIN_SCORE == 60
MIN_CONTACTS_PER_COMPANY == 3

---------------------------------------------------------------------------
(* Keyword lists of JobFilter *)

kw_senior == <<"s","e","n","i","o","r">>
kw_lead == <<"l","e","a","d">>
kw_principal == <<"p","r","i","n","c","i","p","a","l">>
kw_sr_dot == <<"s","r",".">>
kw_sr_space == <<"s","r"," ">>
kw_sap == <<"s","a","p">>
kw_security == <<"s","e","c","u","r","i","t","y">>
kw_cybersecurity == <<"c","y","b","e","r","s","e","c","u","r","i","t","y">>
kw_cyber_security == <<"c","y","b","e","r"," ","s","e","c","u","r","i","t","y">>
kw_cloud == <<"c","l","o","u","d">>
kw_enterprise == <<"e","n","t","e","r","p","r","i","s","e">>
kw_consultative == <<"c","o","n","s","u","l","t","a","t","i","v","e">>
kw_b2b == <<"b","2","b">>
kw_solution == <<"s","o","l","u","t","i","o","n">>
kw_inside_sales == <<"i","n","s","i","d","e"," ","s","a","l","e","s">>
kw_junior == <<"j","u","n","i","o","r">>
kw_trainee == <<"t","r","a","i","n","e","e">>
kw_intern == <<"i","n","t","e","r","n">>
kw_entry == <<"e","n","t","r","y">>
kw_sdr == <<"s","d","r">>
kw_bdr == <<"b","d","r">>

senior_keywords == <<kw_senior, kw_lead, kw_principal, kw_sr_dot, kw_sr_space>>
tech_keywords == <<kw_sap, kw_security, kw_cybersecurity, kw_cyber_security, kw_cloud, kw_enterprise>>
complex_keywords == <<kw_consultative, kw_enterprise, kw_b2b, kw_solution>>
junior_keywords == <<kw_junior, kw_trainee, kw_intern, kw_entry>>
sdr_keywords == <<kw_sdr, kw_bdr>>

---------------------------------------------------------------------------
(* Inputs: titles, descriptions, websites, posted dates *)

T_SeniorSalesEngineer == <<"S","e","n","i","o","r"," ","S","a","l","e","s"," ","E","n","g","i","n","e","e","r">>
T_SalesEngineer == <<"S","a","l","e","s"," ","E","n","g","i","n","e","e","r">>
T_JuniorSalesEngineer == <<"J","u","n","i","o","r"," ","S","a","l","e","s"," ","E","n","g","i","n","e","e","r">>
T_InternationalSalesLead == <<"I","n","t","e","r","n","a","t","i","o","n","a","l"," ","S","a","l","e","s"," ","L","e","a","d">>
T_SrConsultant == <<"S","r","."," ","C","o","n","s","u","l","t","a","n","t">>
T_SDRManager == <<"S","D","R"," ","M","a","n","a","g","e","r">>
T_TeamLeader == <<"T","e","a","m"," ","L","e","a","d","e","r">>
T_PrincipalArchitect == <<"P","R","I","N","C","I","P","A","L"," ","A","r","c","h","i","t","e","c","t">>
T_SrSalesRep == <<"S","r"," ","S","a","l","e","s"," ","R","e","p">>
T_SalesTrainee == <<"S","a","l","e","s"," ","T","r","a","i","n","e","e">>
T_EntryLevelBdr == <<"E","n","t","r","y"," ","L","e","v","e","l"," ","B","d","r">>

D_Empty == <<>>
D_Enterprise == <<"E","n","t","e","r","p","r","i","s","e"," ","a","c","c","o","u","n","t","s">>
D_SapCloud == <<"S","A","P"," ","C","l","o","u","d">>
D_B2BSolution == <<"B","2","B"," ","s","o","l","u","t","i","o","n"," ","s","e","l","l","i","n","g">>
D_InsideSales == <<"I","n","s","i","d","e"," ","S","a","l","e","s">>
D_InsideSalesEnterprise == <<"I","n","s","i","d","e"," ","s","a","l","e","s",","," ","e","n","t","e","r","p","r","i","s","e">>
D_Retail == <<"R","e","t","a","i","l">>
D_CyberSecurity == <<"C","o","n","s","u","l","t","a","t","i","v","e"," ","c","y","b","e","r"," ","s","e","c","u","r","i","t","y">>

W_HttpsSap == <<"h","t","t","p","s",":","/","/","s","a","p",".","c","o","m">>
W_WwwExampleDe == <<"w","w","w",".","e","x","a","m","p","l","e",".","d","e","/","j","o","b","s">>
W_HttpsWwwExampleCom == <<"h","t","t","p","s",":","/","/","w","w","w",".","e","x","a","m","p","l","e",".","c","o","m","/","c","a","r","e","e","r","s">>
W_ExampleDe == <<"e","x","a","m","p","l","e",".","d","e">>
W_HttpLocalhost == <<"h","t","t","p",":","/","/","l","o","c","a","l","h","o","s","t">>
W_HttpsXY == <<"h","t","t","p","s",":","/","/","x",".","y">>
W_NotAUrl == <<"n","/","a"," ","1",".","5">>
W_Localhost == <<"l","o","c","a","l","h","o","s","t">>

Titles == {T_SeniorSalesEngineer, T_SalesEngineer, T_JuniorSalesEngineer,
           T_InternationalSalesLead, T_SrConsultant, T_SDRManager, T_TeamLeader,
           T_PrincipalArchitect, T_SrSalesRep, T_EntryLevelBdr, T_SalesTrainee}

Descriptions == {D_Empty, D_Enterprise, D_SapCloud, D_B2BSolution, D_InsideSales,
                 D_InsideSalesEnterprise, D_Retail, D_CyberSecurity}

\* A posted date is None, a string strptime rejects, or a date; a date is
\* written as the whole number of days from it to today (negative: in the future).
\* A posted date is None, a string strptime rejects, or a date ("YYYY-MM-DD" or a
\* datetime); a date is written <<"date", k>>, k the whole number of days from it
\* to now (negative: a date in the future).
Unparseable == <<"n","/","a">>
Date(k) == <<"date", k>>
IsDate(p) == Len(p) = 2 /\ p[1] = "date"
AgesInDays == {-2, 0, 30, 31, 45, 60, 61, 90}
PostedDates == {None, Unparseable} \cup {Date(k) : k \in AgesInDays}

---------------------------------------------------------------------------
(* JobListing *)

\* (datetime.now() - posted).days, or 0 without a date
_calculate_days_open(posted_date) ==
    IF ~Truthy(posted_date) THEN 0
    ELSE IF ~IsDate(posted_date) THEN 0
    ELSE posted_date[2]

JobListing(data) ==
    [title |-> Get(data, "title", None),
     company_name |-> Get(data, "company_name", None),
     company_website |-> Get(data, "company_website", None),
     location |-> Get(data, "location", None),
     posted_date |-> Get(data, "posted_date", None),
     job_url |-> Get(data, "job_url", None),
     description |-> Get(data, "description", <<>>),
     source |-> Get(data, "source", "Mock"),
     days_open |-> _calculate_days_open(Get(data, "posted_date", None)),
     pain_score |-> 0]

---------------------------------------------------------------------------
(* JobFilter *)

\* calculate_pain_score with the two age bonuses exchanged
calculate_pain_score_bands_swapped(job) ==
    LET base == 50
        age == IF job.days_open > 60 THEN base + 20
               ELSE IF job.days_open > 30 THEN base + 15
               ELSE base
        seniority == IF ContainsAny(Lower(job.title), senior_keywords)
                     THEN age + 10 ELSE age
        description_lower == Lower(job.description)
        technical == IF ContainsAny(description_lower, tech_keywords)
                     THEN seniority + 10 ELSE seniority
        sales == IF ContainsAny(description_lower, complex_keywords)
                 THEN technical + 10 ELSE technical
        score == IF Contains(description_lower, kw_inside_sales)
                 THEN sales - 30 ELSE sales
    IN  Max(0, score)

\* calculate_pain_score with >= 60 in place of > 60
calculate_pain_score_age_inclusive(job) ==
    LET base == 50
        age == IF job.days_open >= 60 THEN base + 15
               ELSE IF job.days_open > 30 THEN base + 20
               ELSE base
        seniority == IF ContainsAny(Lower(job.title), senior_keywords)
                     THEN age + 10 ELSE age
        description_lower == Lower(job.description)
        technical == IF ContainsAny(description_lower, tech_keywords)
                     THEN seniority + 10 ELSE seniority
        sales == IF ContainsAny(description_lower, complex_keywords)
                 THEN technical + 10 ELSE technical
        score == IF Contains(description_lower, kw_inside_sales)
                 THEN sales - 30 ELSE sales
    IN  Max(0, score)

\* calculate_pain_score that returns the margin over MIN_PAIN_SCORE, unfloored
calculate_pain_score_margin(job) ==
    LET base == 50
        age == IF job.days_open > 60 THEN base + 15
               ELSE IF job.days_open > 30 THEN base + 20
               ELSE base
        seniority == IF ContainsAny(Lower(job.title), senior_keywords)
                     THEN age + 10 ELSE age
        description_lower == Lower(job.description)
        technical == IF ContainsAny(description_lower, tech_keywords)
                     THEN seniority + 10 ELSE seniority
        sales == IF ContainsAny(description_lower, complex_keywords)
                 THEN technical + 10 ELSE technical
        score == IF Contains(description_lower, kw_inside_sales)
                 THEN sales - 30 ELSE sales
    IN  score - MIN_PAIN_SCORE

\* calculate_pain_score whose sales-complexity test is an elif of the technical one
calculate_pain_score_elif(job) ==
    LET base == 50
        age == IF job.days_open > 60 THEN base + 15
               ELSE IF job.days_open > 30 THEN base + 20
               ELSE base
        seniority == IF ContainsAny(Lower(job.title), senior_keywords)
                     THEN age + 10 ELSE age
        description_lower == Lower(job.description)
        technical == IF ContainsAny(description_lower, tech_keywords)
                     THEN seniority + 10
                     ELSE IF ContainsAny(description_lower, complex_keywords)
                          THEN seniority + 10 ELSE seniority
        score == IF Contains(description_lower, kw_inside_sales)
                 THEN technical - 30 ELSE technical
    IN  Max(0, score)

calculate_pain_score(job) ==
    LET base == 50
        age == IF job.days_open > 60 THEN base + 15
               ELSE IF job.days_open > 30 THEN base + 20
               ELSE base
        seniority == IF ContainsAny(Lower(job.title), senior_keywords)
                     THEN age + 10 ELSE age
        description_lower == Lower(job.description)
        technical == IF ContainsAny(description_lower, tech_keywords)
                     THEN seniority + 10 ELSE seniority
        sales == IF ContainsAny(description_lower, complex_keywords)
                 THEN technical + 10 ELSE technical
        score == IF Contains(description_lower, kw_inside_sales)
                 THEN sales - 30 ELSE sales
    IN  Max(0, score)

\* should_exclude without title.lower()
should_exclude_case_sensitive(job) ==
    IF ContainsAny(job.title, junior_keywords) THEN TRUE
    ELSE IF ContainsAny(job.title, sdr_keywords) THEN TRUE
    ELSE FALSE

should_exclude(job) ==
    LET title_lower == Lower(job.title)
    IN  IF ContainsAny(title_lower, junior_keywords) THEN TRUE
        ELSE IF ContainsAny(title_lower, sdr_keywords) THEN TRUE
        ELSE FALSE

---------------------------------------------------------------------------
(* Contact *)

Contact(data) ==
    [first_name |-> Get(data, "first_name", None),
     last_name |-> Get(data, "last_name", None),
     email |-> Get(data, "email", None),
     phone |-> Get(data, "phone", None),
     title |-> Get(data, "title", None),
     seniority |-> Get(data, "seniority", None),
     linkedin_url |-> Get(data, "linkedin_url", None)]

\* is_complete without the test of email and phone
is_complete_names_only(contact) ==
    Truthy(contact.first_name) /\ Truthy(contact.last_name)

is_complete(contact) ==
    Truthy(contact.first_name) /\ Truthy(contact.last_name)
        /\ (Truthy(contact.email) \/ Truthy(contact.phone))

---------------------------------------------------------------------------
(* EnrichedLead *)

Letters == {UpperAlpha[i] : i \in 1..26} \cup {LowerAlpha[i] : i \in 1..26}
Digits == {"0","1","2","3","4","5","6","7","8","9"}
LabelChars == Letters \cup Digits \cup {"-"}

SchemeHttps == <<"h","t","t","p","s",":","/","/">>
SchemeHttp == <<"h","t","t","p",":","/","/">>
WwwDot == <<"w","w","w",".">>

PrefixAt(s, p, pre) ==
    p + Len(pre) - 1 <= Len(s) /\ SubSeq(s, p, p + Len(pre) - 1) = pre

\* the last position of the longest run of characters of cls that starts at q
\* (q - 1: the run is empty)
RunEnd(s, q, cls) ==
    CHOOSE e \in (q - 1)..Len(s) :
        /\ \A j \in q..e : s[j] \in cls
        /\ (e = Len(s) \/ s[e + 1] \notin cls)

\* ([a-zA-Z0-9-]+\.[a-zA-Z]{2,}) tried at q: the last position of the match, or 0
GroupEnd(s, q) ==
    IF q < 1 \/ q > Len(s) THEN 0
    ELSE LET e == RunEnd(s, q, LabelChars)
         IN  IF e < q \/ e + 1 > Len(s) \/ s[e + 1] # "." THEN 0
             ELSE LET t == RunEnd(s, e + 2, Letters)
                  IN  IF t - (e + 1) >= 2 THEN t ELSE 0

\* where the group starts when the pattern is tried at p, in the order the regex
\* engine tries its optional prefixes: (https?://)? then (www\.)?; 0: not possible
GroupStarts(s, p) ==
    LET a == IF PrefixAt(s, p, SchemeHttps) THEN p + Len(SchemeHttps)
             ELSE IF PrefixAt(s, p, SchemeHttp) THEN p + Len(SchemeHttp)
             ELSE 0
        aw == IF a > 0 /\ PrefixAt(s, a, WwwDot) THEN a + Len(WwwDot) ELSE 0
        w == IF PrefixAt(s, p, WwwDot) THEN p + Len(WwwDot) ELSE 0
    IN  <<aw, a, w, p>>

MatchesAt(s, p) == \E k \in 1..4 : GroupEnd(s, GroupStarts(s, p)[k]) > 0

\* match.group(1) of the pattern tried at p
GroupAt(s, p) ==
    LET starts == GroupStarts(s, p)
        k == CHOOSE k \in 1..4 :
                 /\ GroupEnd(s, starts[k]) > 0
                 /\ \A j \in 1..(k - 1) : GroupEnd(s, starts[j]) = 0
    IN  SubSeq(s, starts[k], GroupEnd(s, starts[k]))

\* _extract_domain that returns the url itself when the pattern does not match
_extract_domain_or_url(url) ==
    IF ~Truthy(url) THEN None
    ELSE IF \E p \in 1..Len(url) : MatchesAt(url, p)
         THEN GroupAt(url, CHOOSE p \in 1..Len(url) :
                               MatchesAt(url, p) /\ \A r \in 1..(p - 1) : ~MatchesAt(url, r))
         ELSE url

_extract_domain(url) ==
    IF ~Truthy(url) THEN None
    ELSE IF \E p \in 1..Len(url) : MatchesAt(url, p)
         THEN GroupAt(url, CHOOSE p \in 1..Len(url) :
                               MatchesAt(url, p) /\ \A r \in 1..(p - 1) : ~MatchesAt(url, r))
         ELSE None

EmptySummary == [kind |-> "str", text |-> <<>>]

\* job is a reference to the JobListing: its position in the list of jobs
EnrichedLead(job, jobs) ==
    [job |-> job,
     contacts |-> <<>>,
     company_domain |-> _extract_domain(jobs[job].company_website),
     job_summary |-> EmptySummary]

add_contact(l, contact) ==
    IF is_complete(contact)
    THEN [l EXCEPT !.contacts = Append(@, contact)]
    ELSE l

\* is_qualified with `or` in place of `and`
is_qualified_either(l, jobs) ==
    \/ Len(l.contacts) >= MIN_CONTACTS_PER_COMPANY
    \/ jobs[l.job].pain_score >= MIN_PAIN_SCORE

\* is_qualified with > in place of >= on the number of contacts
is_qualified_strict(l, jobs) ==
    /\ Len(l.contacts) > MIN_CONTACTS_PER_COMPANY
    /\ jobs[l.job].pain_score >= MIN_PAIN_SCORE

is_qualified(l, jobs) ==
    /\ Len(l.contacts) >= MIN_CONTACTS_PER_COMPANY
    /\ jobs[l.job].pain_score >= MIN_PAIN_SCORE

---------------------------------------------------------------------------
(* JobSummarizer *)

\* the f-string of _generate_template, by what it interpolates
_generate_template(job) ==
    [kind |-> "template",
     days_open |-> job.days_open,
     location |-> job.location,
     title |-> job.title,
     company_name |-> job.company_name,
     note |-> "Manual review recommended for this vacancy."]

\* _generate_with_claude whose except branch returns "" instead of the template
_generate_with_claude_no_fallback(job, api) ==
    IF api.raises THEN EmptySummary
    ELSE [kind |-> "str", text |-> api.text]

\* api: what client.messages.create did, [raises |-> TRUE] or the message text
_generate_with_claude(job, api) ==
    IF api.raises THEN _generate_template(job)
    ELSE [kind |-> "str", text |-> api.text]

generate_summary(job, api, hasApi) ==
    IF hasApi THEN _generate_with_claude(job, api)
    ELSE _generate_template(job)

---------------------------------------------------------------------------
(* Inputs of a run: the job source, the gateways' answers *)

JobData(title, description, posted_date, website, company, location) ==
    [title |-> title, description |-> description, posted_date |-> posted_date,
     company_website |-> website, company_name |-> company, location |-> location]

RunJobData ==
    {JobData(T_SeniorSalesEngineer, D_Enterprise, Date(45), W_HttpsSap, "SAP", "Berlin"),
     JobData(T_SalesEngineer, D_SapCloud, None, W_WwwExampleDe, "Example", "Munich"),
     JobData(T_JuniorSalesEngineer, D_Enterprise, Date(45), W_HttpsSap, "SAP", "Berlin"),
     JobData(T_SalesEngineer, D_InsideSales, Date(61), W_HttpsSap, "SAP", "Berlin"),
     JobData(T_TeamLeader, D_B2BSolution, Date(31), None, "Acme", "Bonn"),
     JobData(T_SrConsultant, D_Retail, Date(60), W_Localhost, "Local", "Kiel"),
     JobData(T_InternationalSalesLead, D_CyberSecurity, Date(90), W_HttpsSap, "SAP", "Berlin"),
     JobData(T_SDRManager, D_B2BSolution, Unparseable, W_WwwExampleDe, "Example", "Munich")}

\* the longest batch the job source hands to a run
MaxJobs == 2

\* The three postings of generate_mock_jobs.  In the descriptions "\n" is the
\* line break and "EUR" stands for the euro sign.
MockSalesforceTitle == <<"S","e","n","i","o","r"," ","S","a","l","e","s"," ","E","n","g","i","n","e","e","r",
    " ","(","I","T",")">>
MockSalesforceWebsite == <<"h","t","t","p","s",":","/","/","s","a","l","e","s","f","o","r","c","e",".","c","o",
    "m">>
MockSalesforceUrl == <<"h","t","t","p","s",":","/","/","s","a","l","e","s","f","o","r","c","e",".","c","o",
    "m","/","c","a","r","e","e","r","s","/","j","o","b","1","2","3">>
MockSalesforceDescription ==
    <<"W","e"," ","a","r","e"," ","s","e","e","k","i","n","g"," ","a","n"," ","e","x","p",
      "e","r","i","e","n","c","e","d"," ","S","e","n","i","o","r"," ","S","a","l","e","s",
      " ","E","n","g","i","n","e","e","r"," ","t","o"," ","j","o","i","n"," ","o","u","r",
      " ","g","r","o","w","i","n","g"," ","t","e","a","m",".","\n"," "," "," "," "," ",
      " "," "," "," "," "," "," ","\n"," "," "," "," "," "," "," "," "," "," "," "," ",
      "R","e","q","u","i","r","e","m","e","n","t","s",":","\n"," "," "," "," "," "," ",
      " "," "," "," "," "," ","-"," ","5","+"," ","y","e","a","r","s"," ","i","n"," ","t",
      "e","c","h","n","i","c","a","l"," ","s","a","l","e","s",","," ","p","r","e","f","e",
      "r","a","b","l","y"," ","S","a","a","S","/","C","l","o","u","d","\n"," "," "," ",
      " "," "," "," "," "," "," "," "," ","-"," ","D","e","e","p"," ","u","n","d","e","r",
      "s","t","a","n","d","i","n","g"," ","o","f"," ","A","P","I"," ","i","n","t","e","g",
      "r","a","t","i","o","n","s"," ","a","n","d"," ","e","n","t","e","r","p","r","i","s",
      "e"," ","a","r","c","h","i","t","e","c","t","u","r","e","\n"," "," "," "," "," ",
      " "," "," "," "," "," "," ","-"," ","E","x","p","e","r","i","e","n","c","e"," ","w",
      "i","t","h"," ","F","o","r","t","u","n","e"," ","5","0","0"," ","c","l","i","e","n",
      "t","s","\n"," "," "," "," "," "," "," "," "," "," "," "," ","-"," ","F","l","u",
      "e","n","t"," ","i","n"," ","G","e","r","m","a","n"," ","a","n","d"," ","E","n","g",
      "l","i","s","h","\n"," "," "," "," "," "," "," "," "," "," "," "," ","-"," ","S",
      "t","r","o","n","g"," ","p","r","e","s","e","n","t","a","t","i","o","n"," ","a","n",
      "d"," ","c","o","m","m","u","n","i","c","a","t","i","o","n"," ","s","k","i","l","l",
      "s","\n"," "," "," "," "," "," "," "," "," "," "," "," ","\n"," "," "," "," "," ",
      " "," "," "," "," "," "," ","R","e","s","p","o","n","s","i","b","i","l","i","t","i",
      "e","s",":","\n"," "," "," "," "," "," "," "," "," "," "," "," ","-"," ","L","e",
      "a","d"," ","t","e","c","h","n","i","c","a","l"," ","p","r","e","-","s","a","l","e",
      "s"," ","d","i","s","c","u","s","s","i","o","n","s","\n"," "," "," "," "," "," ",
      " "," "," "," "," "," ","-"," ","C","r","e","a","t","e"," ","P","O","C","s"," ","a",
      "n","d"," ","d","e","m","o","s"," ","f","o","r"," ","e","n","t","e","r","p","r","i",
      "s","e"," ","c","l","i","e","n","t","s","\n"," "," "," "," "," "," "," "," "," ",
      " "," "," ","-"," ","W","o","r","k"," ","c","l","o","s","e","l","y"," ","w","i","t",
      "h"," ","p","r","o","d","u","c","t"," ","a","n","d"," ","s","a","l","e","s"," ","t",
      "e","a","m","s","\n"," "," "," "," "," "," "," "," "," "," "," "," ","-"," ","S",
      "u","p","p","o","r","t"," ","c","o","m","p","l","e","x"," ","d","e","a","l","s"," ",
      "w","i","t","h"," ","t","e","c","h","n","i","c","a","l"," ","e","x","p","e","r","t",
      "i","s","e">>
MockPaloAltoTitle == <<"C","y","b","e","r"," ","S","e","c","u","r","i","t","y"," ","S","a","l","e","s"," ",
    "C","o","n","s","u","l","t","a","n","t">>
MockPaloAltoWebsite == <<"h","t","t","p","s",":","/","/","p","a","l","o","a","l","t","o","n","e","t","w","o",
    "r","k","s",".","c","o","m">>
MockPaloAltoUrl == <<"h","t","t","p","s",":","/","/","p","a","l","o","a","l","t","o","n","e","t","w","o",
    "r","k","s",".","c","o","m","/","c","a","r","e","e","r","s","/","j","o","b","4","5",
    "6">>
MockPaloAltoDescription ==
    <<"J","o","i","n"," ","o","u","r"," ","c","y","b","e","r","s","e","c","u","r","i","t",
      "y"," ","t","e","a","m"," ","a","s"," ","a"," ","S","a","l","e","s"," ","C","o","n",
      "s","u","l","t","a","n","t",".","\n"," "," "," "," "," "," "," "," "," "," "," ",
      " ","\n"," "," "," "," "," "," "," "," "," "," "," "," ","R","e","q","u","i","r",
      "e","m","e","n","t","s",":","\n"," "," "," "," "," "," "," "," "," "," "," "," ",
      "-"," ","3","+"," ","y","e","a","r","s"," ","i","n"," ","c","y","b","e","r","s","e",
      "c","u","r","i","t","y"," ","s","a","l","e","s","\n"," "," "," "," "," "," "," ",
      " "," "," "," "," ","-"," ","U","n","d","e","r","s","t","a","n","d","i","n","g"," ",
      "o","f"," ","n","e","t","w","o","r","k"," ","s","e","c","u","r","i","t","y",","," ",
      "f","i","r","e","w","a","l","l","s",","," ","t","h","r","e","a","t"," ","d","e","t",
      "e","c","t","i","o","n","\n"," "," "," "," "," "," "," "," "," "," "," "," ","-",
      " ","E","x","p","e","r","i","e","n","c","e"," ","s","e","l","l","i","n","g"," ","t",
      "o"," ","e","n","t","e","r","p","r","i","s","e"," ","c","l","i","e","n","t","s",
      "\n"," "," "," "," "," "," "," "," "," "," "," "," ","-"," ","G","e","r","m","a",
      "n"," ","l","a","n","g","u","a","g","e"," ","r","e","q","u","i","r","e","d","\n",
      " "," "," "," "," "," "," "," "," "," "," "," ","\n"," "," "," "," "," "," "," ",
      " "," "," "," "," ","W","e"," ","o","f","f","e","r"," ","c","o","m","p","e","t","i",
      "t","i","v","e"," ","c","o","m","p","e","n","s","a","t","i","o","n"," ","a","n","d",
      " ","p","r","o","f","e","s","s","i","o","n","a","l"," ","d","e","v","e","l","o","p",
      "m","e","n","t",".">>
MockSapTitle == <<"S","A","P"," ","S","a","l","e","s"," ","C","o","n","s","u","l","t","a","n","t">>
MockSapWebsite == <<"h","t","t","p","s",":","/","/","s","a","p",".","c","o","m">>
MockSapUrl == <<"h","t","t","p","s",":","/","/","s","a","p",".","c","o","m","/","c","a","r","e","e",
    "r","s","/","j","o","b","7","8","9">>
MockSapDescription ==
    <<"L","o","o","k","i","n","g"," ","f","o","r"," ","a","n"," ","e","x","p","e","r","i",
      "e","n","c","e","d"," ","S","A","P"," ","S","a","l","e","s"," ","C","o","n","s","u",
      "l","t","a","n","t",".","\n"," "," "," "," "," "," "," "," "," "," "," "," ","\n",
      " "," "," "," "," "," "," "," "," "," "," "," ","R","e","q","u","i","r","e","m","e",
      "n","t","s",":","\n"," "," "," "," "," "," "," "," "," "," "," "," ","-"," ","D",
      "e","e","p"," ","S","A","P"," ","p","r","o","d","u","c","t"," ","k","n","o","w","l",
      "e","d","g","e"," ","(","S","/","4","H","A","N","A",","," ","E","R","P",","," ","C",
      "l","o","u","d",")","\n"," "," "," "," "," "," "," "," "," "," "," "," ","-"," ",
      "5","+"," ","y","e","a","r","s"," ","e","n","t","e","r","p","r","i","s","e"," ","s",
      "o","f","t","w","a","r","e"," ","s","a","l","e","s","\n"," "," "," "," "," "," ",
      " "," "," "," "," "," ","-"," ","E","x","p","e","r","i","e","n","c","e"," ","w","i",
      "t","h"," ","l","a","r","g","e"," ","d","e","a","l","s"," ","(","EUR","1","M","+",
      ")","\n"," "," "," "," "," "," "," "," "," "," "," "," ","-"," ","C","o","n","s",
      "u","l","t","a","t","i","v","e"," ","s","e","l","l","i","n","g"," ","a","p","p","r",
      "o","a","c","h","\n"," "," "," "," "," "," "," "," "," "," "," "," ","-"," ","F",
      "l","u","e","n","t"," ","G","e","r","m","a","n"," ","a","n","d"," ","E","n","g","l",
      "i","s","h","\n"," "," "," "," "," "," "," "," "," "," "," "," ","\n"," "," "," ",
      " "," "," "," "," "," "," "," "," ","T","h","i","s"," ","r","o","l","e"," ","r","e",
      "q","u","i","r","e","s"," ","t","r","a","v","e","l"," ","a","c","r","o","s","s"," ",
      "D","A","C","H"," ","r","e","g","i","o","n",".">>

mock_data ==
    <<[title |-> MockSalesforceTitle, company_name |-> "Salesforce",
       company_website |-> MockSalesforceWebsite, location |-> "Munich, Germany",
       posted_date |-> Date(45), job_url |-> MockSalesforceUrl,
       description |-> MockSalesforceDescription, source |-> "Mock (StepStone)"],
      [title |-> MockPaloAltoTitle, company_name |-> "Palo Alto Networks",
       company_website |-> MockPaloAltoWebsite, location |-> "Frankfurt, Germany",
       posted_date |-> Date(32), job_url |-> MockPaloAltoUrl,
       description |-> MockPaloAltoDescription, source |-> "Mock (LinkedIn)"],
      [title |-> MockSapTitle, company_name |-> "SAP",
       company_website |-> MockSapWebsite, location |-> "Berlin, Germany",
       posted_date |-> Date(67), job_url |-> MockSapUrl,
       description |-> MockSapDescription, source |-> "Mock (StepStone)"]>>

generate_mock_jobs == [i \in 1..Len(mock_data) |-> JobListing(mock_data[i])]

\* what the job source hands to a run: the mock batch, or any short batch
Batches ==
    {generate_mock_jobs}
        \cup UNION {[1..n -> {JobListing(d) : d \in RunJobData}] : n \in 0..MaxJobs}

N_Ana == <<"A","n","a">>
N_Ruiz == <<"R","u","i","z">>
N_Ben == <<"B","e","n">>
N_Ito == <<"I","t","o">>
N_Cy == <<"C","y">>
N_Lee == <<"L","e","e">>
E_Ana == <<"a","n","a","@","s","a","p",".","c","o","m">>
E_Ben == <<"b","e","n","@","s","a","p",".","c","o","m">>
P_One == <<"+","4","9","1">>
P_Two == <<"+","4","9","2">>

ContactData(first, last, email, phone) ==
    [first_name |-> first, last_name |-> last, email |-> email, phone |-> phone]

C_Full == ContactData(N_Ana, N_Ruiz, E_Ana, P_One)
C_EmailOnly == ContactData(N_Ben, N_Ito, E_Ben, None)
C_PhoneOnly == ContactData(N_Cy, N_Lee, <<>>, P_Two)
C_NoChannel == ContactData(N_Ben, N_Lee, None, <<>>)
C_NoFirst == ContactData(None, N_Ruiz, E_Ana, P_One)
C_EmptyLast == ContactData(N_Cy, <<>>, E_Ben, None)

ContactPool == {C_Full, C_EmailOnly, C_PhoneOnly, C_NoChannel, C_NoFirst, C_EmptyLast}

\* what enrich_company(domain, max_contacts=5) returns when it returns
Responses ==
    {<<>>,
     <<C_Full, C_EmailOnly>>,
     <<C_Full, C_EmailOnly, C_PhoneOnly>>,
     <<C_Full, C_NoChannel, C_EmailOnly, C_NoFirst, C_EmptyLast>>,
     <<C_PhoneOnly, C_NoChannel, C_Full, C_EmailOnly>>,
     <<C_EmailOnly, C_Full, C_PhoneOnly, C_Full, C_EmailOnly>>}

EnrichOutcomes ==
    {[raises |-> TRUE, contacts |-> <<>>]}
        \cup {[raises |-> FALSE, contacts |-> r] : r \in Responses}

ClaudeText == <<"*","*","M","u","s","t","-","H","a","v","e"," ","S","k","i","l","l","s",":","*","*">>

\* what client.messages.create does: it raises, or the message holds a text
ApiOutcomes == {[raises |-> TRUE, text |-> <<>>], [raises |-> FALSE, text |-> ClaudeText]}
NoApiCall == [raises |-> FALSE, text |-> <<>>]

SummaryFailed == [kind |-> "str", text |-> <<"S","u","m","m","a","r","y"," ","g","e","n","e","r","a","t","i","o","n"," ","f","a","i","l","e","d">>]

---------------------------------------------------------------------------
(* LeadGenerationPipeline.run *)

NoLead == [job |-> 0, contacts |-> <<>>, company_domain |-> None, job_summary |-> EmptySummary]
NoJob == JobListing(JobData(<<>>, <<>>, None, None, "", ""))

Logged(event, job, n) == [event |-> event, job |-> job, n |-> n]

RECURSIVE AddAll(_, _)
\* for contact_dict in contact_data: lead.add_contact(Contact(contact_dict))
AddAll(l, data) ==
    IF data = <<>> THEN l
    ELSE AddAll(add_contact(l, Contact(Head(data))), Tail(data))

\* Contact.to_dict(prefix) for the i-th contact: the column group contact_i_*
to_dict(contact) ==
    [first_name |-> contact.first_name, last_name |-> contact.last_name,
     email |-> contact.email, phone |-> contact.phone,
     title |-> contact.title, seniority |-> contact.seniority,
     linkedin_url |-> contact.linkedin_url]

\* to_csv_row without the [:5] slice of the contacts
to_csv_row_unsliced(l, jobs) ==
    [job_title |-> jobs[l.job].title,
     company_name |-> jobs[l.job].company_name,
     company_website |-> jobs[l.job].company_website,
     location |-> jobs[l.job].location,
     job_url |-> jobs[l.job].job_url,
     source |-> jobs[l.job].source,
     days_open |-> jobs[l.job].days_open,
     pain_score |-> jobs[l.job].pain_score,
     company_domain |-> l.company_domain,
     job_summary |-> l.job_summary,
     contact |-> [i \in 1..Len(l.contacts) |-> to_dict(l.contacts[i])]]

to_csv_row(l, jobs) ==
    [job_title |-> jobs[l.job].title,
     company_name |-> jobs[l.job].company_name,
     company_website |-> jobs[l.job].company_website,
     location |-> jobs[l.job].location,
     job_url |-> jobs[l.job].job_url,
     source |-> jobs[l.job].source,
     days_open |-> jobs[l.job].days_open,
     pain_score |-> jobs[l.job].pain_score,
     company_domain |-> l.company_domain,
     job_summary |-> l.job_summary,
     contact |-> [i \in 1..Min(5, Len(l.contacts)) |-> to_dict(l.contacts[i])]]

\* _leads_to_dataframe that lists the rows last lead first
_leads_to_dataframe_reversed(leads, jobs) ==
    [k \in 1..Len(leads) |-> to_csv_row(leads[Len(leads) + 1 - k], jobs)]

_leads_to_dataframe(leads, jobs) == [k \in 1..Len(leads) |-> to_csv_row(leads[k], jobs)]

RunIdle ==
    /\ pc = "idle" /\ all_jobs = <<>> /\ fi = 0 /\ qualified_jobs = <<>> /\ li = 0
    /\ lead = NoLead /\ enriched_leads = <<>> /\ has_api = FALSE
    /\ contact_data = <<>> /\ log = <<>> /\ df = <<>> /\ files = 0
    /\ apollo_key = None /\ exit_status = "running"
    /\ enrich_calls = <<>> /\ summary_calls = <<>> /\ score_writes = <<>>

ScoreIdle == tjob = NoJob /\ tdone = {} /\ tscore = 0 /\ texcluded = FALSE

NoRow == [contact |-> <<>>]
NoResponse == [kind |-> "none"]

LeadIdle ==
    /\ tlead = NoLead /\ targs = <<>> /\ tverdict = FALSE /\ top = "idle"
    /\ trow = NoRow

ApolloIdle == tcall = "idle" /\ tresponse = NoResponse /\ tresult = <<>> /\ traised = ""

EmptyCache == [key \in {} |-> <<>>]

CacheIdle == cache = EmptyCache /\ cache_hits = 0 /\ api_calls = 0 /\ ccalls = <<>>

BatchIdle ==
    /\ bpc = "idle" /\ companies = <<>> /\ free_tier_limit = 0 /\ bi = 0
    /\ results = <<>> /\ credits_used = 0 /\ searches = 0

ApiKey == <<"a","p","i","_","x">>

\* what os.getenv("APOLLO_API_KEY") gave when Config was defined
ApolloKeys == {None, <<>>, ApiKey}

\* the module is loaded, main has not started
Init ==
    /\ pc = "main" /\ all_jobs = <<>> /\ fi = 0 /\ qualified_jobs = <<>> /\ li = 0
    /\ lead = NoLead /\ enriched_leads = <<>> /\ has_api = FALSE
    /\ contact_data = <<>> /\ log = <<>> /\ df = <<>> /\ files = 0
    /\ apollo_key \in ApolloKeys /\ exit_status = "running"
    /\ enrich_calls = <<>> /\ summary_calls = <<>> /\ score_writes = <<>>
    /\ ScoreIdle /\ LeadIdle /\ ApolloIdle /\ CacheIdle /\ BatchIdle

\* main without the test of the required keys: the pipeline is constructed at once
MainStartUnchecked ==
    /\ pc = "main"
    /\ has_api' \in BOOLEAN
    /\ pc' = "ingest"
    /\ UNCHANGED <<all_jobs, fi, qualified_jobs, li, lead, enriched_leads, contact_data,
                   log, df, files, main_vars, call_vars, score_writes, score_vars,
                   lead_vars, apollo_vars, tier_vars>>

\* main: sys.exit(1) when a required key is missing; else LeadGenerationPipeline()
\* is constructed (ApolloEnricher has its key; JobSummarizer.__init__ found the
\* Claude client or not) and run is entered
MainStart ==
    /\ pc = "main"
    /\ IF ~Truthy(apollo_key)
       THEN /\ log' = Append(log, Logged("Missing required API keys", 0, 0))
            /\ exit_status' = "exit 1"
            /\ pc' = "exit"
            /\ UNCHANGED has_api
       ELSE /\ has_api' \in BOOLEAN
            /\ pc' = "ingest"
            /\ UNCHANGED <<log, exit_status>>
    /\ UNCHANGED <<all_jobs, fi, qualified_jobs, li, lead, enriched_leads, contact_data,
                   df, files, apollo_key, call_vars, score_writes, score_vars, lead_vars,
                   apollo_vars, tier_vars>>

\* main after run returned: success or the warning that no lead qualified; main
\* returns and the process ends with status 0
MainReturn ==
    /\ pc \in {"Exported", "EmptyBatch"}
    /\ exit_status = "running"
    /\ log' = IF Len(df) > 0 THEN Append(log, Logged("SUCCESS", 0, Len(df)))
              ELSE Append(log, Logged("WARNING: no leads qualified", 0, 0))
    /\ exit_status' = "exit 0"
    /\ UNCHANGED <<pc, all_jobs, fi, qualified_jobs, li, lead, enriched_leads, has_api,
                   contact_data, df, files, apollo_key, call_vars, score_writes,
                   score_vars, lead_vars, apollo_vars, tier_vars>>

\* Step 1: all_jobs = generate_mock_jobs(), for any batch of the job source
Ingest ==
    /\ pc = "ingest"
    /\ \E batch \in Batches : all_jobs' = batch
    /\ score_writes' = [i \in 1..Len(all_jobs') |-> 0]
    /\ pc' = "filter"
    /\ fi' = 1
    /\ UNCHANGED <<qualified_jobs, li, lead, enriched_leads, has_api, contact_data,
                   log, df, files, main_vars, call_vars, score_vars, lead_vars,
                   apollo_vars, tier_vars>>

\* FilterJob that keeps every job it scored, whatever the score
FilterJobKeepAll ==
    /\ pc = "filter"
    /\ fi <= Len(all_jobs)
    /\ IF should_exclude(all_jobs[fi])
       THEN /\ log' = Append(log, Logged("Excluded", fi, 0))
            /\ UNCHANGED <<all_jobs, qualified_jobs, score_writes>>
       ELSE LET score == calculate_pain_score(all_jobs[fi])
            IN  /\ all_jobs' = [all_jobs EXCEPT ![fi].pain_score = score]
                /\ score_writes' = [score_writes EXCEPT ![fi] = @ + 1]
                /\ qualified_jobs' = Append(qualified_jobs, fi)
                /\ log' = Append(log, Logged("Qualified", fi, score))
    /\ fi' = fi + 1
    /\ UNCHANGED <<pc, li, lead, enriched_leads, has_api, contact_data, df, files,
                   main_vars, call_vars, score_vars, lead_vars, apollo_vars, tier_vars>>

\* FilterJob with > in place of >= on the threshold
FilterJobStrict ==
    /\ pc = "filter"
    /\ fi <= Len(all_jobs)
    /\ IF should_exclude(all_jobs[fi])
       THEN /\ log' = Append(log, Logged("Excluded", fi, 0))
            /\ UNCHANGED <<all_jobs, qualified_jobs, score_writes>>
       ELSE LET score == calculate_pain_score(all_jobs[fi])
            IN  /\ all_jobs' = [all_jobs EXCEPT ![fi].pain_score = score]
                /\ score_writes' = [score_writes EXCEPT ![fi] = @ + 1]
                /\ IF score > MIN_PAIN_SCORE
                   THEN /\ qualified_jobs' = Append(qualified_jobs, fi)
                        /\ log' = Append(log, Logged("Qualified", fi, score))
                   ELSE UNCHANGED <<qualified_jobs, log>>
    /\ fi' = fi + 1
    /\ UNCHANGED <<pc, li, lead, enriched_leads, has_api, contact_data, df, files,
                   main_vars, call_vars, score_vars, lead_vars, apollo_vars, tier_vars>>

\* filter_and_score: one iteration of `for job in jobs`
FilterJob ==
    /\ pc = "filter"
    /\ fi <= Len(all_jobs)
    /\ IF should_exclude(all_jobs[fi])
       THEN /\ log' = Append(log, Logged("Excluded", fi, 0))
            /\ UNCHANGED <<all_jobs, qualified_jobs, score_writes>>
       ELSE LET score == calculate_pain_score(all_jobs[fi])
            IN  /\ all_jobs' = [all_jobs EXCEPT ![fi].pain_score = score]
                /\ score_writes' = [score_writes EXCEPT ![fi] = @ + 1]
                /\ IF score >= MIN_PAIN_SCORE
                   THEN /\ qualified_jobs' = Append(qualified_jobs, fi)
                        /\ log' = Append(log, Logged("Qualified", fi, score))
                   ELSE UNCHANGED <<qualified_jobs, log>>
    /\ fi' = fi + 1
    /\ UNCHANGED <<pc, li, lead, enriched_leads, has_api, contact_data, df, files,
                   main_vars, call_vars, score_vars, lead_vars, apollo_vars, tier_vars>>

\* FilterReturn without the early return: the loop over the leads is entered
FilterReturnNoEarlyExit ==
    /\ pc = "filter"
    /\ fi > Len(all_jobs)
    /\ pc' = "create"
    /\ li' = 1
    /\ UNCHANGED <<log, df>>
    /\ UNCHANGED <<all_jobs, fi, qualified_jobs, lead, enriched_leads, has_api,
                   contact_data, files, main_vars, call_vars, score_writes, score_vars,
                   lead_vars, apollo_vars, tier_vars>>

\* filter_and_score returns; run leaves early when nothing qualified
FilterReturn ==
    /\ pc = "filter"
    /\ fi > Len(all_jobs)
    /\ IF qualified_jobs = <<>>
       THEN /\ pc' = "EmptyBatch"
            /\ log' = Append(log, Logged("No qualified jobs found", 0, 0))
            /\ df' = <<>>
            /\ li' = li
       ELSE /\ pc' = "create"
            /\ li' = 1
            /\ UNCHANGED <<log, df>>
    /\ UNCHANGED <<all_jobs, fi, qualified_jobs, lead, enriched_leads, has_api,
                   contact_data, files, main_vars, call_vars, score_writes, score_vars,
                   lead_vars, apollo_vars, tier_vars>>

\* for job in qualified_jobs: lead = EnrichedLead(job)
CreateLead ==
    /\ pc = "create"
    /\ li <= Len(qualified_jobs)
    /\ lead' = EnrichedLead(qualified_jobs[li], all_jobs)
    /\ pc' = "enrich"
    /\ UNCHANGED <<all_jobs, fi, qualified_jobs, li, enriched_leads, has_api,
                   contact_data, log, df, files, main_vars, call_vars, score_writes,
                   score_vars, lead_vars, apollo_vars, tier_vars>>

\* Enrich without the try/except: what enrich_company raises ends the run
EnrichUncaught ==
    /\ pc = "enrich"
    /\ IF Truthy(lead.company_domain)
       THEN /\ enrich_calls' = Append(enrich_calls, lead.job)
            /\ \E out \in EnrichOutcomes :
                   IF out.raises
                   THEN /\ pc' = "raised"
                        /\ UNCHANGED <<lead, contact_data, log>>
                   ELSE /\ contact_data' = out.contacts
                        /\ lead' = AddAll(lead, out.contacts)
                        /\ log' = Append(log, Logged("Found contacts", lead.job,
                                                     Len(lead'.contacts)))
                        /\ pc' = "summarize"
       ELSE /\ pc' = "summarize"
            /\ UNCHANGED <<lead, contact_data, log, enrich_calls>>
    /\ UNCHANGED <<all_jobs, fi, qualified_jobs, li, enriched_leads, has_api, df, files,
                   main_vars, summary_calls, score_writes, score_vars, lead_vars,
                   apollo_vars, tier_vars>>

\* Enrich that calls enrich_company a second time when the first call raised
EnrichRetryOnce ==
    /\ pc = "enrich"
    /\ IF Truthy(lead.company_domain)
       THEN /\ enrich_calls' = Append(enrich_calls, lead.job)
            /\ \E out \in EnrichOutcomes :
                   IF out.raises
                   THEN /\ log' = Append(log, Logged("Enrichment failed", lead.job, 0))
                        /\ pc' = IF lead.job \in {enrich_calls[k] : k \in 1..Len(enrich_calls)}
                                 THEN "summarize" ELSE "enrich"
                        /\ UNCHANGED <<lead, contact_data>>
                   ELSE /\ contact_data' = out.contacts
                        /\ lead' = AddAll(lead, out.contacts)
                        /\ log' = Append(log, Logged("Found contacts", lead.job,
                                                     Len(lead'.contacts)))
                        /\ pc' = "summarize"
       ELSE /\ pc' = "summarize"
            /\ UNCHANGED <<lead, contact_data, log, enrich_calls>>
    /\ UNCHANGED <<all_jobs, fi, qualified_jobs, li, enriched_leads, has_api, df, files,
                   main_vars, summary_calls, score_writes, score_vars, lead_vars,
                   apollo_vars, tier_vars>>

\* Enrich without the test of lead.company_domain
EnrichAlways ==
    /\ pc = "enrich"
    /\ enrich_calls' = Append(enrich_calls, lead.job)
    /\ \E out \in EnrichOutcomes :
           IF out.raises
           THEN /\ log' = Append(log, Logged("Enrichment failed", lead.job, 0))
                /\ UNCHANGED <<lead, contact_data>>
           ELSE /\ contact_data' = out.contacts
                /\ lead' = AddAll(lead, out.contacts)
                /\ log' = Append(log, Logged("Found contacts", lead.job,
                                             Len(lead'.contacts)))
    /\ pc' = "summarize"
    /\ UNCHANGED <<all_jobs, fi, qualified_jobs, li, enriched_leads, has_api, df, files,
                   main_vars, summary_calls, score_writes, score_vars, lead_vars,
                   apollo_vars, tier_vars>>

\* Enrich with one contacts list shared by all leads: what is attached to the
\* current lead is attached to the leads already in enriched_leads
EnrichSharedContacts ==
    /\ pc = "enrich"
    /\ IF Truthy(lead.company_domain)
       THEN /\ enrich_calls' = Append(enrich_calls, lead.job)
            /\ \E out \in EnrichOutcomes :
                   IF out.raises
                   THEN /\ log' = Append(log, Logged("Enrichment failed", lead.job, 0))
                        /\ UNCHANGED <<lead, contact_data, enriched_leads>>
                   ELSE /\ contact_data' = out.contacts
                        /\ lead' = AddAll(lead, out.contacts)
                        /\ enriched_leads' =
                               [k \in 1..Len(enriched_leads) |->
                                   AddAll(enriched_leads[k], out.contacts)]
                        /\ log' = Append(log, Logged("Found contacts", lead.job,
                                                     Len(lead'.contacts)))
       ELSE UNCHANGED <<lead, contact_data, log, enrich_calls, enriched_leads>>
    /\ pc' = "summarize"
    /\ UNCHANGED <<all_jobs, fi, qualified_jobs, li, has_api, df, files,
                   main_vars, summary_calls, score_writes, score_vars, lead_vars,
                   apollo_vars, tier_vars>>

\* if lead.company_domain: try: enrich_company, add_contact each; except: log
Enrich ==
    /\ pc = "enrich"
    /\ IF Truthy(lead.company_domain)
       THEN /\ enrich_calls' = Append(enrich_calls, lead.job)
            /\ \E out \in EnrichOutcomes :
                   IF out.raises
                   THEN /\ log' = Append(log, Logged("Enrichment failed", lead.job, 0))
                        /\ UNCHANGED <<lead, contact_data>>
                   ELSE /\ contact_data' = out.contacts
                        /\ lead' = AddAll(lead, out.contacts)
                        /\ log' = Append(log, Logged("Found contacts", lead.job,
                                                     Len(lead'.contacts)))
       ELSE UNCHANGED <<lead, contact_data, log, enrich_calls>>
    /\ pc' = "summarize"
    /\ UNCHANGED <<all_jobs, fi, qualified_jobs, li, enriched_leads, has_api, df, files,
                   main_vars, summary_calls, score_writes, score_vars, lead_vars,
                   apollo_vars, tier_vars>>

\* try: lead.job_summary = generate_summary(job); except: "Summary generation failed"
\* (generate_summary catches what the API call raises, and raises nothing itself)
Summarize ==
    /\ pc = "summarize"
    /\ \E api \in (IF has_api THEN ApiOutcomes ELSE {NoApiCall}) :
           LET raised == FALSE
               summary == generate_summary(all_jobs[lead.job], api, has_api)
           IN  /\ lead' = [lead EXCEPT !.job_summary =
                               IF raised THEN SummaryFailed ELSE summary]
               /\ log' = IF has_api /\ api.raises
                         THEN Append(log, Logged("Claude API error", lead.job, 0))
                         ELSE log
    /\ summary_calls' = Append(summary_calls, lead.job)
    /\ pc' = "qualify"
    /\ UNCHANGED <<all_jobs, fi, qualified_jobs, li, enriched_leads, has_api,
                   contact_data, df, files, main_vars, enrich_calls, score_writes,
                   score_vars, lead_vars, apollo_vars, tier_vars>>

\* Qualify that clears the pain_score of the job of a rejected lead
QualifyResetRejected ==
    /\ pc = "qualify"
    /\ IF is_qualified(lead, all_jobs)
       THEN /\ enriched_leads' = Append(enriched_leads, lead)
            /\ log' = Append(log, Logged("Qualified lead", lead.job, Len(lead.contacts)))
            /\ UNCHANGED <<all_jobs, score_writes>>
       ELSE /\ log' = Append(log, Logged("Not qualified", lead.job, Len(lead.contacts)))
            /\ all_jobs' = [all_jobs EXCEPT ![lead.job].pain_score = 0]
            /\ score_writes' = [score_writes EXCEPT ![lead.job] = @ + 1]
            /\ UNCHANGED enriched_leads
    /\ li' = li + 1
    /\ pc' = "create"
    /\ UNCHANGED <<fi, qualified_jobs, lead, has_api, contact_data, df, files,
                   main_vars, call_vars, score_vars, lead_vars, apollo_vars, tier_vars>>

\* if lead.is_qualified(): enriched_leads.append(lead); then the next job
Qualify ==
    /\ pc = "qualify"
    /\ IF is_qualified(lead, all_jobs)
       THEN /\ enriched_leads' = Append(enriched_leads, lead)
            /\ log' = Append(log, Logged("Qualified lead", lead.job, Len(lead.contacts)))
       ELSE /\ log' = Append(log, Logged("Not qualified", lead.job, Len(lead.contacts)))
            /\ UNCHANGED enriched_leads
    /\ li' = li + 1
    /\ pc' = "create"
    /\ UNCHANGED <<all_jobs, fi, qualified_jobs, lead, has_api, contact_data, df, files,
                   main_vars, call_vars, score_writes, score_vars, lead_vars,
                   apollo_vars, tier_vars>>

\* Export that writes the CSV file also when the table is empty
ExportAlways ==
    /\ pc = "create"
    /\ li > Len(qualified_jobs)
    /\ df' = _leads_to_dataframe(enriched_leads, all_jobs)
    /\ files' = files + 1
    /\ log' = Append(log, Logged("Pipeline complete", 0, Len(df')))
    /\ pc' = "Exported"
    /\ UNCHANGED <<all_jobs, fi, qualified_jobs, li, lead, enriched_leads, has_api,
                   contact_data, main_vars, call_vars, score_writes, score_vars,
                   lead_vars, apollo_vars, tier_vars>>

\* Step 4: df = _leads_to_dataframe(enriched_leads); written unless it is empty
Export ==
    /\ pc = "create"
    /\ li > Len(qualified_jobs)
    /\ df' = _leads_to_dataframe(enriched_leads, all_jobs)
    /\ files' = IF Len(df') = 0 THEN files ELSE files + 1
    /\ log' = IF Len(df') = 0 THEN Append(log, Logged("No leads to export!", 0, 0))
              ELSE Append(log, Logged("Pipeline complete", 0, Len(df')))
    /\ pc' = "Exported"
    /\ UNCHANGED <<all_jobs, fi, qualified_jobs, li, lead, enriched_leads, has_api,
                   contact_data, main_vars, call_vars, score_writes, score_vars,
                   lead_vars, apollo_vars, tier_vars>>

Next ==
    \/ MainStart
    \/ MainReturn
    \/ Ingest
    \/ FilterJob
    \/ FilterReturn
    \/ CreateLead
    \/ Enrich
    \/ Summarize
    \/ Qualify
    \/ Export

Spec == Init /\ [][Next]_vars

\* the positions of run at which a statement is still to be executed
RunningPcs == {"ingest", "filter", "create", "enrich", "summarize", "qualify"}

PcValues == RunningPcs \cup {"main", "exit", "EmptyBatch", "Exported"}

\* run executes the statement it is at: it moves to another position or to the
\* next element of the loop it is in.  Every step of Next taken inside run is
\* such a step; a call that is made returns or raises.
RunStep ==
    /\ pc \in RunningPcs
    /\ \E p \in PcValues, f \in {fi, fi + 1}, l \in {li, li + 1, 1} :
           /\ <<p, f, l>> # <<pc, fi, li>>
           /\ pc' = p /\ fi' = f /\ li' = l

\* run is single-threaded and synchronous: it does not stop between statements
SpecRunToEnd == Init /\ [][Next]_vars /\ WF_<<pc, fi, li>>(RunStep)

---------------------------------------------------------------------------
(* JobFilter's static methods called on one job *)

ScoreJobData ==
    {JobData(t, d, p, None, "", "") : t \in Titles, d \in Descriptions, p \in PostedDates}

InitScore ==
    /\ RunIdle /\ LeadIdle /\ ApolloIdle /\ CacheIdle /\ BatchIdle
    /\ tjob \in {JobListing(d) : d \in ScoreJobData}
    /\ tdone = {} /\ tscore = 0 /\ texcluded = FALSE

CallShouldExclude ==
    /\ "should_exclude" \notin tdone
    /\ texcluded' = should_exclude(tjob)
    /\ tdone' = tdone \cup {"should_exclude"}
    /\ UNCHANGED <<tjob, tscore, run_vars, lead_vars, apollo_vars, tier_vars>>

CallCalculatePainScore ==
    /\ "calculate_pain_score" \notin tdone
    /\ tscore' = calculate_pain_score(tjob)
    /\ tdone' = tdone \cup {"calculate_pain_score"}
    /\ UNCHANGED <<tjob, texcluded, run_vars, lead_vars, apollo_vars, tier_vars>>

NextScore ==
    \/ CallShouldExclude
    \/ CallCalculatePainScore

SpecScore == InitScore /\ [][NextScore]_vars

---------------------------------------------------------------------------
(* EnrichedLead's methods called on one lead *)

\* the most add_contact calls made on the lead
MaxAdds == 4

PainScores == {59, 60}

InitLead ==
    /\ RunIdle /\ ApolloIdle /\ CacheIdle /\ BatchIdle /\ trow = NoRow
    /\ tjob = JobListing(JobData(T_SalesEngineer, D_SapCloud, None, W_HttpsSap, "SAP", "Berlin"))
    /\ tdone = {} /\ tscore = 0 /\ texcluded = FALSE
    /\ tlead = EnrichedLead(1, <<tjob>>)
    /\ targs = <<>> /\ tverdict = FALSE /\ top = "__init__"

CallAddContact ==
    /\ Len(targs) < MaxAdds
    /\ \E data \in ContactPool :
           /\ tlead' = add_contact(tlead, Contact(data))
           /\ targs' = Append(targs, Contact(data))
    /\ top' = "add_contact"
    /\ UNCHANGED <<tverdict, trow, run_vars, score_vars, apollo_vars, tier_vars>>

\* job.pain_score = ...
AssignPainScore ==
    /\ \E score \in PainScores : tjob' = [tjob EXCEPT !.pain_score = score]
    /\ top' = "pain_score"
    /\ UNCHANGED <<tlead, targs, tverdict, trow, tdone, tscore, texcluded, run_vars,
                   apollo_vars, tier_vars>>

CallIsQualified ==
    /\ tverdict' = is_qualified(tlead, <<tjob>>)
    /\ top' = "is_qualified"
    /\ UNCHANGED <<tlead, targs, trow, run_vars, score_vars, apollo_vars, tier_vars>>

NextLead ==
    \/ CallAddContact
    \/ AssignPainScore
    \/ CallIsQualified

SpecLead == InitLead /\ [][NextLead]_vars

---------------------------------------------------------------------------
(* A JobListing and its EnrichedLead constructed from one raw record *)

Websites == {None, <<>>, W_HttpsSap, W_WwwExampleDe, W_Localhost, W_HttpsWwwExampleCom,
             W_ExampleDe, W_HttpLocalhost, W_HttpsXY, W_NotAUrl}

ConstructData ==
    {JobData(t, D_Empty, p, w, "Example", "Munich") :
        t \in {T_SalesEngineer, T_JuniorSalesEngineer}, p \in PostedDates, w \in Websites}

InitConstruct == RunIdle /\ ScoreIdle /\ LeadIdle /\ ApolloIdle /\ CacheIdle /\ BatchIdle

\* job = JobListing(data); lead = EnrichedLead(job)
Construct ==
    /\ top = "idle"
    /\ \E data \in ConstructData :
           /\ tjob' = JobListing(data)
           /\ tlead' = EnrichedLead(1, <<tjob'>>)
    /\ top' = "__init__"
    /\ UNCHANGED <<targs, tverdict, trow, tdone, tscore, texcluded, run_vars,
                   apollo_vars, tier_vars>>

NextConstruct == Construct

SpecConstruct == InitConstruct /\ [][NextConstruct]_vars

---------------------------------------------------------------------------
(* to_csv_row called on a lead with any number of attached contacts *)

MaxRowContacts == 6

RowContactPool == {C_Full, C_PhoneOnly, C_NoChannel}

RECURSIVE ContactLists(_)
\* the sequences of at most n raw contacts
ContactLists(n) ==
    IF n = 0 THEN {<<>>}
    ELSE LET shorter == ContactLists(n - 1)
         IN  shorter \cup {Append(s, c) : s \in {t \in shorter : Len(t) = n - 1},
                                           c \in RowContactPool}

\* lead = EnrichedLead(job); lead.add_contact(Contact(d)) for each d
InitRow ==
    /\ RunIdle /\ ApolloIdle /\ CacheIdle /\ BatchIdle
    /\ tjob = JobListing(JobData(T_SalesEngineer, D_SapCloud, None, W_HttpsSap, "SAP", "Berlin"))
    /\ tdone = {} /\ tscore = 0 /\ texcluded = FALSE
    /\ \E data \in ContactLists(MaxRowContacts) :
           /\ targs = [i \in 1..Len(data) |-> Contact(data[i])]
           /\ tlead = AddAll(EnrichedLead(1, <<tjob>>), data)
    /\ tverdict = FALSE /\ top = "add_contact" /\ trow = NoRow

CallToCsvRow ==
    /\ top = "add_contact"
    /\ trow' = to_csv_row(tlead, <<tjob>>)
    /\ top' = "to_csv_row"
    /\ UNCHANGED <<tlead, targs, tverdict, run_vars, score_vars, apollo_vars, tier_vars>>

NextRow == CallToCsvRow

SpecRow == InitRow /\ [][NextRow]_vars

---------------------------------------------------------------------------
(* ApolloEnricher.enrich_company called directly, on any answer of the API *)

c_level_words == <<<<"c","e","o">>,
                   <<"c","h","i","e","f">>, <<"p","r","e","s","i","d","e","n","t">>,
                   <<"f","o","u","n","d","e","r">>,
                   <<"g","e","s","c","h","ä","f","t","s","f","ü","h","r","e","r">>>>
vp_words == <<<<"v","p">>, <<"v","i","c","e"," ","p","r","e","s","i","d","e","n","t">>, <<"e","v","p">>, <<"s","v","p">>>>
head_words == <<<<"h","e","a","d">>, <<"d","i","r","e","c","t","o","r">>, <<"l","e","i","t","e","r">>>>
manager_words == <<<<"m","a","n","a","g","e","r">>, <<"l","e","a","d">>>>

_determine_seniority(title) ==
    LET title_lower == Lower(title)
    IN  IF ContainsAny(title_lower, c_level_words) THEN "C-Level"
        ELSE IF ContainsAny(title_lower, vp_words) THEN "VP"
        ELSE IF ContainsAny(title_lower, head_words) THEN "Head/Director"
        ELSE IF ContainsAny(title_lower, manager_words) THEN "Manager"
        ELSE "Other"

\* a or b
OrElse(a, b) == IF Truthy(a) THEN a ELSE b

NumberOf(pn) == OrElse(Get(pn, "sanitized_number", None), Get(pn, "number", None))

\* the phone _transform_apollo_contact picks: the first mobile or work number,
\* else (also when that one has no number) the first number of the list
PhoneOf(person) ==
    LET phone_numbers == Get(person, "phone_numbers", <<>>)
        preferred == {i \in 1..Len(phone_numbers) :
                         Get(phone_numbers[i], "type", None) \in {"mobile", "work"}}
        phone == IF preferred = {} THEN None
                 ELSE NumberOf(phone_numbers[CHOOSE i \in preferred :
                                                 \A j \in preferred : i <= j])
    IN  IF Len(phone_numbers) = 0 THEN None
        ELSE IF Truthy(phone) THEN phone
        ELSE NumberOf(phone_numbers[1])

\* person.get('title', '').lower() raises AttributeError when the title is null
TransformRaises(person) == Get(person, "title", <<>>) = None

_transform_apollo_contact(person) ==
    [first_name |-> Get(person, "first_name", None),
     last_name |-> Get(person, "last_name", None),
     email |-> Get(person, "email", None),
     phone |-> PhoneOf(person),
     title |-> Get(person, "title", None),
     seniority |-> _determine_seniority(Get(person, "title", <<>>)),
     linkedin_url |-> Get(person, "linkedin_url", None),
     source |-> "apollo.io"]

A_Ceo == <<"C","E","O">>
A_VpSales == <<"V","P"," ","S","a","l","e","s">>
A_HeadOfSales == <<"H","e","a","d"," ","o","f"," ","S","a","l","e","s">>
A_Recruiter == <<"R","e","c","r","u","i","t","e","r">>

Ph_Mobile == [type |-> "mobile", sanitized_number |-> P_One]
Ph_WorkRaw == [type |-> "work", number |-> P_Two]
Ph_Other == [type |-> "other", sanitized_number |-> P_Two]

Pn_Ceo == [first_name |-> N_Ana, last_name |-> N_Ruiz, email |-> E_Ana, title |-> A_Ceo,
           phone_numbers |-> <<Ph_Other, Ph_Mobile>>]
Pn_Vp == [first_name |-> N_Ben, last_name |-> N_Ito, email |-> E_Ben, title |-> A_VpSales,
          phone_numbers |-> <<Ph_WorkRaw>>]
Pn_NoEmail == [first_name |-> N_Cy, last_name |-> N_Lee, title |-> A_HeadOfSales,
               phone_numbers |-> <<Ph_Other>>]
Pn_NullEmail == [first_name |-> N_Cy, last_name |-> N_Lee, email |-> None,
                 title |-> A_Recruiter]
Pn_NoTitle == [first_name |-> N_Ben, last_name |-> N_Lee, email |-> E_Ben]
Pn_NullTitle == [first_name |-> N_Ana, last_name |-> N_Ito, email |-> E_Ana, title |-> None]

People == {Pn_Ceo, Pn_Vp, Pn_NoEmail, Pn_NullEmail, Pn_NoTitle, Pn_NullTitle}

MaxPeople == 2

\* what response.json() gives for a well-formed body
JsonObjects ==
    {[pagination |-> 1]}
        \cup {[people |-> s] : s \in UNION {[1..n -> People] : n \in 0..MaxPeople}}

InvalidJson == [kind |-> "invalid"]

Bodies == {InvalidJson} \cup {[kind |-> "object", data |-> d] : d \in JsonObjects}

StatusCodes == {200, 401, 403, 422, 429, 500, 503}

\* the exceptions of requests.post, all of them RequestException
PostExceptions == {"ConnectionError", "Timeout", "SSLError"}

PostOutcomes ==
    {[kind |-> "exception", name |-> e] : e \in PostExceptions}
        \cup {[kind |-> "response", status_code |-> c, body |-> b] :
                 c \in StatusCodes, b \in Bodies}

InitApollo ==
    /\ RunIdle /\ ScoreIdle /\ LeadIdle /\ CacheIdle /\ BatchIdle
    /\ tcall = "post" /\ tresponse = NoResponse /\ tresult = <<>> /\ traised = ""

\* response = requests.post(...); except RequestException: return []
Post ==
    /\ tcall = "post"
    /\ \E out \in PostOutcomes :
           /\ tresponse' = out
           /\ tcall' = IF out.kind = "exception" THEN "returned" ELSE "raise_for_status"
    /\ tresult' = <<>>
    /\ UNCHANGED <<traised, run_vars, score_vars, lead_vars, tier_vars>>

\* RaiseForStatus whose HTTPError is not caught
RaiseForStatusUncaught ==
    /\ tcall = "raise_for_status"
    /\ IF tresponse.status_code >= 400 /\ tresponse.status_code < 600
       THEN tcall' = "raised" /\ traised' = "HTTPError"
       ELSE tcall' = "json" /\ UNCHANGED traised
    /\ UNCHANGED <<tresponse, tresult, run_vars, score_vars, lead_vars, tier_vars>>

\* response.raise_for_status(); except RequestException: return []
RaiseForStatus ==
    /\ tcall = "raise_for_status"
    /\ IF tresponse.status_code >= 400 /\ tresponse.status_code < 600
       THEN tcall' = "returned" /\ tresult' = <<>>
       ELSE tcall' = "json" /\ UNCHANGED tresult
    /\ UNCHANGED <<tresponse, traised, run_vars, score_vars, lead_vars, tier_vars>>

\* data = response.json(); people = data.get('people', []); the contacts with an
\* email are returned.  A body that is not JSON raises JSONDecodeError, which is
\* a RequestException (caught) or only a ValueError (not caught), as the
\* installed requests has it; a null title raises AttributeError (not caught).
Transform ==
    /\ tcall = "json"
    /\ IF tresponse.body = InvalidJson
       THEN \/ tcall' = "returned" /\ tresult' = <<>> /\ UNCHANGED traised
            \/ tcall' = "raised" /\ traised' = "ValueError" /\ UNCHANGED tresult
       ELSE LET people == Get(tresponse.body.data, "people", <<>>)
            IN  IF \E i \in 1..Len(people) : TransformRaises(people[i])
                THEN tcall' = "raised" /\ traised' = "AttributeError" /\ UNCHANGED tresult
                ELSE /\ tresult' = SelectSeq([i \in 1..Len(people) |->
                                                 _transform_apollo_contact(people[i])],
                                             LAMBDA contact : Truthy(contact.email))
                     /\ tcall' = "returned"
                     /\ UNCHANGED traised
    /\ UNCHANGED <<tresponse, run_vars, score_vars, lead_vars, tier_vars>>

NextApollo ==
    \/ Post
    \/ RaiseForStatus
    \/ Transform

SpecApollo == InitApollo /\ [][NextApollo]_vars

---------------------------------------------------------------------------
(* ApolloEnricherWithCache.enrich_company called any number of times *)

DigitChars == <<"0","1","2","3","4","5","6","7","8","9">>

RECURSIVE Str(_)
\* str(n) of a natural number
Str(n) == IF n < 10 THEN <<DigitChars[n + 1]>>
          ELSE Str(n \div 10) \o <<DigitChars[(n % 10) + 1]>>

\* f"{company_domain}:{max_contacts}"
cache_key(company_domain, max_contacts) == company_domain \o <<":">> \o Str(max_contacts)

Dom_A == <<"a",".","d","e">>
Dom_A1 == <<"a",".","d","e",":","1">>

CacheDomains == {Dom_A, Dom_A1}
MaxContactsValues == {3, 13}

\* what super().enrich_company does: it returns contacts, returns [] (nothing
\* found, or a failed request), or lets an exception through
LookupOutcomes ==
    {[raises |-> TRUE, contacts |-> <<>>],
     [raises |-> FALSE, contacts |-> <<>>],
     [raises |-> FALSE, contacts |-> <<_transform_apollo_contact(Pn_Ceo)>>],
     [raises |-> FALSE, contacts |-> <<_transform_apollo_contact(Pn_Vp),
                                       _transform_apollo_contact(Pn_NoTitle)>>]}

MaxCalls == 3

Called(domain, n, key, hit, raised, result) ==
    [company_domain |-> domain, max_contacts |-> n, key |-> key, hit |-> hit,
     raised |-> raised, result |-> result]

InitCache ==
    /\ RunIdle /\ ScoreIdle /\ LeadIdle /\ ApolloIdle /\ BatchIdle
    /\ cache = EmptyCache /\ cache_hits = 0 /\ api_calls = 0 /\ ccalls = <<>>

\* CachedEnrichCompany that does not store an empty result
CachedEnrichCompanyNonEmptyOnly ==
    /\ Len(ccalls) < MaxCalls
    /\ \E domain \in CacheDomains, n \in MaxContactsValues :
           LET key == cache_key(domain, n)
           IN  IF key \in DOMAIN cache
               THEN /\ cache_hits' = cache_hits + 1
                    /\ ccalls' = Append(ccalls, Called(domain, n, key, TRUE, FALSE, cache[key]))
                    /\ UNCHANGED <<cache, api_calls>>
               ELSE /\ api_calls' = api_calls + 1
                    /\ \E out \in LookupOutcomes :
                           /\ cache' = IF out.raises \/ out.contacts = <<>> THEN cache
                                       ELSE [k \in DOMAIN cache \cup {key} |->
                                                IF k = key THEN out.contacts ELSE cache[k]]
                           /\ ccalls' = Append(ccalls, Called(domain, n, key, FALSE,
                                                              out.raises, out.contacts))
                    /\ UNCHANGED cache_hits
    /\ UNCHANGED <<run_vars, score_vars, lead_vars, apollo_vars, batch_vars>>

\* ApolloEnricherWithCache.enrich_company: a hit returns the stored list; else
\* api_calls is counted, the lookup is made, and what it returns is stored (an
\* exception of the lookup leaves the cache as it is and goes to the caller)
CachedEnrichCompany ==
    /\ Len(ccalls) < MaxCalls
    /\ \E domain \in CacheDomains, n \in MaxContactsValues :
           LET key == cache_key(domain, n)
           IN  IF key \in DOMAIN cache
               THEN /\ cache_hits' = cache_hits + 1
                    /\ ccalls' = Append(ccalls, Called(domain, n, key, TRUE, FALSE, cache[key]))
                    /\ UNCHANGED <<cache, api_calls>>
               ELSE /\ api_calls' = api_calls + 1
                    /\ \E out \in LookupOutcomes :
                           /\ cache' = IF out.raises THEN cache
                                       ELSE [k \in DOMAIN cache \cup {key} |->
                                                IF k = key THEN out.contacts ELSE cache[k]]
                           /\ ccalls' = Append(ccalls, Called(domain, n, key, FALSE,
                                                              out.raises, out.contacts))
                    /\ UNCHANGED cache_hits
    /\ UNCHANGED <<run_vars, score_vars, lead_vars, apollo_vars, batch_vars>>

\* get_stats()
get_stats ==
    [cache_hits |-> cache_hits, api_calls |-> api_calls, credits_saved |-> cache_hits,
     cache_size |-> Cardinality(DOMAIN cache)]

NextCache == CachedEnrichCompany

SpecCache == InitCache /\ [][NextCache]_vars

---------------------------------------------------------------------------
(* enrich_batch_with_free_tier on any company list and any limit *)

MaxCompanies == 3

FreeTierLimits == {0, 1, 2}

BatchDomains == {Dom_A, Dom_A1}

InitBatch ==
    /\ RunIdle /\ ScoreIdle /\ LeadIdle /\ ApolloIdle /\ CacheIdle
    /\ companies \in UNION {[1..n -> BatchDomains] : n \in 0..MaxCompanies}
    /\ free_tier_limit \in FreeTierLimits
    /\ bpc = "loop" /\ bi = 1
    /\ results = <<>> /\ credits_used = 0 /\ searches = 0

\* one iteration of `for i, company_domain in enumerate(companies)`: break at
\* the limit; else one search, whose contacts are appended and counted as a
\* credit when there are any (an exception of the search ends the batch)
BatchIteration ==
    /\ bpc = "loop"
    /\ bi <= Len(companies)
    /\ IF credits_used >= free_tier_limit
       THEN /\ bpc' = "returned"
            /\ UNCHANGED <<bi, results, credits_used, searches>>
       ELSE /\ searches' = searches + 1
            /\ \E out \in LookupOutcomes :
                   IF out.raises
                   THEN /\ bpc' = "raised"
                        /\ UNCHANGED <<bi, results, credits_used>>
                   ELSE /\ IF Len(out.contacts) > 0
                           THEN /\ results' = Append(results,
                                       [company_domain |-> companies[bi],
                                        contacts |-> out.contacts,
                                        contact_count |-> Len(out.contacts)])
                                /\ credits_used' = credits_used + 1
                           ELSE UNCHANGED <<results, credits_used>>
                        /\ bi' = bi + 1
                        /\ UNCHANGED bpc
    /\ UNCHANGED <<companies, free_tier_limit, run_vars, score_vars, lead_vars,
                   apollo_vars, cache_vars>>

\* the list is exhausted: return results
BatchReturn ==
    /\ bpc = "loop"
    /\ bi > Len(companies)
    /\ bpc' = "returned"
    /\ UNCHANGED <<companies, free_tier_limit, bi, results, credits_used, searches,
                   run_vars, score_vars, lead_vars, apollo_vars, cache_vars>>

NextBatch ==
    \/ BatchIteration
    \/ BatchReturn

SpecBatch == InitBatch /\ [][NextBatch]_vars

---------------------------------------------------------------------------
(* Properties *)

Present(x) == x # None /\ x # <<>>

CompleteContact(c) ==
    Present(c.first_name) /\ Present(c.last_name) /\ (Present(c.email) \/ Present(c.phone))

Range(s) == {s[i] : i \in 1..Len(s)}

Events(event, job) == {k \in 1..Len(log) : log[k].event = event /\ log[k].job = job}

LastEvent == IF log = <<>> THEN Logged("", 0, 0) ELSE log[Len(log)]

\* C1: every lead in the export batch of run has at least 3 contacts, all of them
\* complete, and a job whose pain_score is at least 60, from the moment it is
\* appended, whatever the batch and whatever the gateways did.
C1_ExportBatchQualified ==
    \A k \in 1..Len(enriched_leads) :
        LET l == enriched_leads[k]
        IN  /\ Len(l.contacts) >= 3
            /\ \A i \in 1..Len(l.contacts) : CompleteContact(l.contacts[i])
            /\ all_jobs[l.job].pain_score >= 60

\* a run that appended one lead after a failed API call and rejected another
C1_Witness ==
    /\ Len(enriched_leads) = 1
    /\ enriched_leads[1].job_summary.kind = "template"
    /\ \E j \in 1..Len(all_jobs) : Events("Not qualified", j) # {}

\* C2: whenever is_qualified is called it returns TRUE exactly when the lead then
\* has at least 3 contacts and its job's pain_score is then at least 60.
C2_IsQualifiedIff ==
    top = "is_qualified" =>
        tverdict = (Len(tlead.contacts) >= 3 /\ tjob.pain_score >= 60)

\* is_qualified answered TRUE at exactly 3 contacts and exactly score 60
C2_Witness ==
    /\ top = "is_qualified" /\ tverdict
    /\ Len(tlead.contacts) = 3 /\ tjob.pain_score = 60

\* C3: after any add_contact calls, the lead's contacts are the arguments of the
\* calls, in call order, restricted to the complete ones: an incomplete contact
\* changes nothing, a complete one is appended at the end, all contacts are complete.
C3_OnlyCompleteContacts ==
    /\ tlead.contacts = SelectSeq(targs, CompleteContact)
    /\ \A i \in 1..Len(tlead.contacts) : CompleteContact(tlead.contacts[i])

\* four calls, incomplete and complete contacts interleaved, two attached
C3_Witness ==
    /\ Len(targs) = 4 /\ Len(tlead.contacts) = 2
    /\ ~CompleteContact(targs[1]) /\ CompleteContact(targs[2])
    /\ ~CompleteContact(targs[3]) /\ CompleteContact(targs[4])
    /\ targs[2] # targs[4]

SourceJobs == {JobListing(d) : d \in RunJobData} \cup Range(generate_mock_jobs)

\* the jobs of the job source that should_exclude does not exclude and
\* calculate_pain_score scores at least 60
RetainedJobs ==
    {j \in SourceJobs : ~should_exclude(j) /\ calculate_pain_score(j) >= 60}

\* the job as it was constructed
Unscored(job) == [job EXCEPT !.pain_score = 0]

Retained(i) == Unscored(all_jobs[i]) \in RetainedJobs

\* C4: filter_and_score visits the jobs once, in order, and its result is exactly
\* the jobs that should_exclude does not exclude and calculate_pain_score scores
\* at least 60, in their input order, none twice.
C4_FilterAndScoreExact ==
    pc \notin {"main", "exit", "ingest"} =>
        /\ fi \in 1..(Len(all_jobs) + 1)
        /\ qualified_jobs = SelectSeq([i \in 1..(fi - 1) |-> i], Retained)
        /\ (pc # "filter" => fi = Len(all_jobs) + 1)

\* filter_and_score returned the second of two jobs, scored exactly 60, having
\* dropped the first for its score
C4_Witness ==
    /\ pc = "create" /\ Len(all_jobs) = 2 /\ qualified_jobs = <<2>>
    /\ all_jobs[2].pain_score = 60
    /\ ~should_exclude(all_jobs[1])

ExcludedTitleKeywords == {kw_junior, kw_trainee, kw_intern, kw_entry, kw_sdr, kw_bdr}

\* the titles of the input that contain one of the keywords, in any case
ExcludedTitles ==
    {t \in Titles \cup {j.title : j \in SourceJobs} : \E kw \in ExcludedTitleKeywords : Contains(Lower(t), kw)}

HasExcludedTitle(job) == job.title \in ExcludedTitles

\* C5: a job whose title contains junior, trainee, intern, entry, sdr or bdr, in
\* any case, is never scored (pain_score stays 0), never in the result of
\* filter_and_score, never a lead and never exported.
C5_ExcludedNeverScored ==
    \A i \in 1..Len(all_jobs) :
        HasExcludedTitle(all_jobs[i]) =>
            /\ all_jobs[i].pain_score = 0
            /\ i \notin Range(qualified_jobs)
            /\ lead.job # i
            /\ \A k \in 1..Len(enriched_leads) : enriched_leads[k].job # i
            /\ \A k \in 1..Len(df) : df[k].job_title # all_jobs[i].title
            /\ Events("Qualified", i) = {}

\* a run exported a lead from a batch whose first job had an excluded title and
\* a description and age that would have scored 90
C5_Witness ==
    /\ pc = "Exported" /\ Len(df) = 1 /\ Len(all_jobs) = 2
    /\ HasExcludedTitle(all_jobs[1])
    /\ calculate_pain_score(all_jobs[1]) = 90

Verdicts(job) == Events("Qualified lead", job) \cup Events("Not qualified", job)

\* C6: when enrich_company raises for a lead, the lead has no contacts, the run
\* goes on to summarize and to qualify it (it is rejected with 0 contacts), and
\* a finished run has given a verdict on every job of the filtered batch.
C6_EnrichmentFailureContained ==
    /\ pc \in {"main", "exit", "ingest", "filter", "EmptyBatch", "create", "enrich",
               "summarize", "qualify", "Exported"}
    /\ LastEvent.event = "Enrichment failed" =>
           pc \in {"summarize", "qualify"} /\ lead.job = LastEvent.job
    /\ \A j \in 1..Len(all_jobs) :
           Events("Enrichment failed", j) # {} =>
               /\ lead.job = j => lead.contacts = <<>>
               /\ (lead.job = j /\ pc \in {"qualify", "create"}) =>
                      lead.job_summary # EmptySummary
               /\ \A k \in Verdicts(j) : log[k].event = "Not qualified" /\ log[k].n = 0
               /\ (lead.job # j \/ pc \in {"create", "Exported"}) => Verdicts(j) # {}
    /\ pc = "Exported" =>
           \A k \in 1..Len(qualified_jobs) : Cardinality(Verdicts(qualified_jobs[k])) = 1

\* the enrichment of the first lead failed and the run went on to export the second
C6_Witness ==
    /\ pc = "Exported" /\ Len(qualified_jobs) = 2 /\ Len(df) = 1
    /\ Events("Enrichment failed", qualified_jobs[1]) # {}
    /\ Events("Qualified lead", qualified_jobs[2]) # {}

ProcessedSummaryOf(l) == l.job_summary.kind = "template" \/ l.job_summary.text # <<>>

AgeBonus(days) == IF days <= 30 THEN 0 ELSE IF days <= 60 THEN 20 ELSE 15

Scored == "calculate_pain_score" \in tdone

\* C8: the score of a job exceeds the score of the same job at age 0 by exactly
\* 0 when days_open <= 30, 20 when 30 < days_open <= 60, 15 when days_open > 60.
C8_AgeContribution ==
    Scored =>
        tscore - calculate_pain_score([tjob EXCEPT !.days_open = 0])
            = AgeBonus(tjob.days_open)

\* a job open exactly 60 days was scored, with the +20 of the middle band
C8_Witness ==
    /\ Scored /\ tjob.days_open = 60
    /\ tjob.title = T_SalesEngineer /\ tjob.description = D_Empty
    /\ tscore = 70

\* C9: calculate_pain_score never returns a negative score.
C9_ScoreNonNegative == Scored => tscore >= 0

\* a job with the negative signal and no positive one was scored
C9_Witness ==
    /\ Scored /\ tjob.description = D_InsideSales /\ tjob.days_open <= 30
    /\ tjob.title = T_SalesEngineer
    /\ tscore = 20

Bonus(signal, points) == IF signal THEN points ELSE 0

\* C10: the score is max(0, 50 + age bonus + 10 for a seniority keyword in the
\* title + 10 for a technical keyword in the description + 10 for a sales
\* keyword in the description - 30 for 'inside sales'), each counted once.
C10_ScoreFormula ==
    Scored =>
        tscore = Max(0, 50 + AgeBonus(tjob.days_open)
                          + Bonus(ContainsAny(Lower(tjob.title), senior_keywords), 10)
                          + Bonus(ContainsAny(Lower(tjob.description), tech_keywords), 10)
                          + Bonus(ContainsAny(Lower(tjob.description), complex_keywords), 10)
                          - Bonus(Contains(Lower(tjob.description), kw_inside_sales), 30))

\* a description whose only keyword is 'enterprise' scored +20
C10_Witness ==
    /\ Scored /\ tjob.description = D_Enterprise
    /\ tjob.title = T_SalesEngineer /\ tjob.days_open = 0
    /\ tscore = 70

\* C11: days_open >= 0 for every JobListing constructed, whatever its posted
\* date.  (It fails: a posted date in the future gives a negative days_open.)
C11_DaysOpenNonNegative == top = "__init__" => tjob.days_open >= 0

\* somewhere in url: a run of label characters, a dot, two letters
HasDomainPattern(url) ==
    \E i \in 1..Len(url) : \E j \in i..Len(url) :
        /\ \A k \in i..j : url[k] \in LabelChars
        /\ j + 3 <= Len(url)
        /\ url[j + 1] = "."
        /\ url[j + 2] \in Letters /\ url[j + 3] \in Letters

\* C12: a JobListing whose posted date is absent or unparseable has days_open
\* 0, and a lead whose company website is absent, empty or without a domain
\* pattern has no company domain.
C12_SafeDefaults ==
    top = "__init__" =>
        /\ (tjob.posted_date = None \/ tjob.posted_date = Unparseable) => tjob.days_open = 0
        /\ (tjob.company_website = None \/ tjob.company_website = <<>>
                \/ ~HasDomainPattern(tjob.company_website)) =>
               tlead.company_domain = None

\* an unparseable date and a website without a domain pattern were constructed
C12_Witness ==
    /\ top = "__init__"
    /\ tjob.posted_date = Unparseable /\ tjob.days_open = 0
    /\ tjob.company_website = W_HttpLocalhost /\ tlead.company_domain = None

BeforeRun == {"main", "exit", "ingest", "filter"}

\* C13: when no job survives filtering, run takes the early exit with an empty
\* table and without any enrichment or summarization call; when no lead
\* survives qualification the table is empty too; in both cases nothing is
\* raised, no file is written and main does not end with an error status.
C13_EmptyBatchNotError ==
    /\ (pc \notin BeforeRun /\ qualified_jobs = <<>>) =>
           /\ pc = "EmptyBatch"
           /\ enrich_calls = <<>> /\ summary_calls = <<>>
           /\ df = <<>> /\ files = 0
    /\ (pc = "Exported" /\ enriched_leads = <<>>) => (df = <<>> /\ files = 0)
    /\ (pc \in {"EmptyBatch", "Exported"} /\ df = <<>>) =>
           /\ exit_status \in {"running", "exit 0"}
           /\ (exit_status = "exit 0" => LastEvent.event = "WARNING: no leads qualified")

\* main returned normally after a run whose two jobs were both dropped by the filter
C13_Witness ==
    /\ pc = "EmptyBatch" /\ Len(all_jobs) = 2 /\ qualified_jobs = <<>>
    /\ exit_status = "exit 0"

\* C14: the rows of the exported table are in the order of their jobs in the
\* input batch: row k is the row of the k-th qualified lead, and the leads'
\* jobs are in increasing input position, whatever the gateways did.
C14_InputOrder ==
    /\ \A j, k \in 1..Len(enriched_leads) :
           j < k => enriched_leads[j].job < enriched_leads[k].job
    /\ pc = "Exported" =>
           /\ Len(df) = Len(enriched_leads)
           /\ \A k \in 1..Len(df) :
                  LET l == enriched_leads[k]
                      job == all_jobs[l.job]
                  IN  /\ df[k].job_title = job.title
                      /\ df[k].company_website = job.company_website
                      /\ df[k].days_open = job.days_open
                      /\ df[k].pain_score = job.pain_score
                      /\ df[k].job_summary = l.job_summary
                      /\ Len(df[k].contact) = Min(5, Len(l.contacts))
                      /\ \A i \in 1..Len(df[k].contact) :
                             df[k].contact[i].email = l.contacts[i].email

\* two leads of different jobs were exported
C14_Witness ==
    /\ pc = "Exported" /\ Len(df) = 2
    /\ df[1] # df[2]
    /\ all_jobs[1].title # all_jobs[2].title

\* C16: with APOLLO_API_KEY missing the program stops in main: no job is
\* ingested, filtered, enriched or summarized, no file is written, and the
\* process ends with an error status.
C16_MissingKeyAborts ==
    ~Truthy(apollo_key) =>
        /\ pc \in {"main", "exit"}
        /\ all_jobs = <<>> /\ qualified_jobs = <<>> /\ score_writes = <<>>
        /\ enrich_calls = <<>> /\ summary_calls = <<>>
        /\ enriched_leads = <<>> /\ df = <<>> /\ files = 0
        /\ exit_status # "exit 0"
        /\ (pc = "exit" <=> exit_status = "exit 1")

\* the process has ended on the empty key
C16_Witness ==
    /\ apollo_key = <<>> /\ pc = "exit" /\ exit_status = "exit 1"
    /\ LastEvent.event = "Missing required API keys"

\* the run is on the batch of generate_mock_jobs
MockRun ==
    /\ Len(all_jobs) = Len(generate_mock_jobs)
    /\ \A i \in 1..Len(all_jobs) : Unscored(all_jobs[i]) = generate_mock_jobs[i]

\* the scores of the mock jobs had they been posted today
MockScoresAtAgeZero ==
    [i \in 1..Len(generate_mock_jobs) |->
        calculate_pain_score([generate_mock_jobs[i] EXCEPT !.days_open = 0])]

MockAges == <<45, 32, 67>>
MockAgeBonuses == <<20, 20, 15>>

\* C20: the three mock jobs are 45, 32 and 67 days old, none is excluded, each
\* is scored at least 60 with age bonus 20, 20 and 15, and filter_and_score
\* returns all three in their order.
C20_MockJobsQualify ==
    (MockRun /\ pc \notin BeforeRun) =>
        /\ Len(all_jobs) = 3
        /\ qualified_jobs = <<1, 2, 3>>
        /\ \A i \in 1..3 :
               /\ all_jobs[i].days_open = MockAges[i]
               /\ Events("Excluded", i) = {}
               /\ score_writes[i] = 1
               /\ all_jobs[i].pain_score >= 60
               /\ all_jobs[i].pain_score - MockScoresAtAgeZero[i] = MockAgeBonuses[i]

\* filter_and_score has returned the three scored mock jobs
C20_Witness ==
    /\ MockRun /\ pc = "create" /\ li = 1
    /\ qualified_jobs = <<1, 2, 3>>
    /\ all_jobs[1].pain_score = 100 /\ all_jobs[2].pain_score = 90
    /\ all_jobs[3].pain_score = 85

\* C17 as stated: once filter_and_score has returned, the pain_score of every
\* job of the batch has been set exactly once.  (It fails: the pain_score of an
\* excluded job is never set.)
C17_EveryJobScoredOnce ==
    pc \notin BeforeRun => \A i \in 1..Len(all_jobs) : score_writes[i] = 1

C17_Step ==
    /\ pc \notin {"ingest", "filter"} =>
           (all_jobs' = all_jobs /\ score_writes' = score_writes)
    /\ pc = "filter" =>
           /\ Len(all_jobs') = Len(all_jobs)
           /\ \A i \in 1..Len(all_jobs) :
                  i # fi => /\ all_jobs'[i] = all_jobs[i]
                            /\ score_writes'[i] = score_writes[i]
           /\ fi' = fi + 1 =>
                  /\ score_writes[fi] = 0
                  /\ score_writes'[fi] = IF HasExcludedTitle(all_jobs[fi]) THEN 0 ELSE 1
                  /\ Unscored(all_jobs'[fi]) = all_jobs[fi]
                  /\ HasExcludedTitle(all_jobs[fi]) => all_jobs'[fi].pain_score = 0
    /\ pc' \notin BeforeRun =>
           \A i \in 1..Len(all_jobs') :
               score_writes'[i] = IF HasExcludedTitle(all_jobs'[i]) THEN 0 ELSE 1

\* C17: the pain_score of a job is set at most once, by filter_and_score when
\* it visits the job: exactly once for a job that is not excluded, never for an
\* excluded one; no later step of the run changes any job.
C17_ScoreSetAtMostOnce == [][C17_Step]_vars

\* a finished run: the first job was excluded and never scored, the second was
\* scored once, rejected as a lead, and kept its score
C17_Witness ==
    /\ pc = "Exported" /\ Len(all_jobs) = 2
    /\ score_writes = <<0, 1>>
    /\ all_jobs[2].pain_score >= 60
    /\ Events("Not qualified", 2) # {}

C18_Step ==
    \* the order of the states of one lead
    /\ pc = "create" => pc' \in {"create", "enrich", "Exported"}
    /\ pc = "enrich" => pc' \in {"enrich", "summarize"}
    /\ pc = "summarize" => pc' \in {"summarize", "qualify"}
    /\ pc = "qualify" => pc' \in {"qualify", "create"}
    \* Created: a fresh lead for the next job of the filtered batch
    /\ (pc = "create" /\ pc' = "enrich") =>
           /\ li \in 1..Len(qualified_jobs)
           /\ lead'.job = qualified_jobs[li]
           /\ lead'.contacts = <<>> /\ lead'.job_summary = EmptySummary
           /\ Verdicts(lead'.job) = {}
           /\ \A k \in 1..(li - 1) : Cardinality(Verdicts(qualified_jobs[k])) = 1
    \* Enriched, Summarized: the same lead
    /\ pc \in {"enrich", "summarize"} => (lead'.job = lead.job /\ li' = li)
    /\ pc = "summarize" => lead'.contacts = lead.contacts
    \* Qualified or Rejected: the verdict on this lead, then the next one
    /\ (pc = "qualify" /\ pc' = "create") =>
           /\ li' = li + 1
           /\ log'[Len(log')].job = lead.job
           /\ \/ /\ log'[Len(log')].event = "Qualified lead"
                 /\ enriched_leads' = Append(enriched_leads, lead)
              \/ /\ log'[Len(log')].event = "Not qualified"
                 /\ enriched_leads' = enriched_leads
    /\ (pc = "create" /\ pc' = "Exported") =>
           \A k \in 1..Len(qualified_jobs) : Cardinality(Verdicts(qualified_jobs[k])) = 1
    \* the leads already judged are left as they are
    /\ Len(enriched_leads') >= Len(enriched_leads)
    /\ \A k \in 1..Len(enriched_leads) : enriched_leads'[k] = enriched_leads[k]
    /\ Len(log') >= Len(log)
    /\ \A k \in 1..Len(log) : log'[k] = log[k]

\* C18: every job of the filtered batch becomes a lead that is created, then
\* enriched, then summarized, then qualified or rejected; a lead has its verdict
\* before the next lead is created, and no step changes the contacts, the
\* summary or the verdict of an earlier lead.
C18_PerLeadSequence == [][C18_Step]_vars

\* the second lead has been enriched with contacts after the first one qualified
C18_Witness ==
    /\ pc = "summarize" /\ li = 2
    /\ Len(enriched_leads) = 1 /\ enriched_leads[1].job = qualified_jobs[1]
    /\ Len(lead.contacts) >= 3
    /\ lead.contacts # enriched_leads[1].contacts

\* the number of contact column groups of a row of a lead with k contacts
Groups(k) == IF k < 5 THEN k ELSE 5

\* C15: the row of a lead with k attached contacts has the column groups
\* contact_i_* exactly for i = 1..min(5, k), group i filled from the i-th
\* attached contact, and to_csv_row returns the row for every k, k < 5 included.
C15_ContactColumnGroups ==
    top = "to_csv_row" =>
        LET k == Len(tlead.contacts)
        IN  /\ trow # NoRow
            /\ DOMAIN trow.contact = 1..Groups(k)
            /\ \A i \in 1..Groups(k) :
                   LET c == tlead.contacts[i]
                       g == trow.contact[i]
                   IN  /\ g.first_name = c.first_name /\ g.last_name = c.last_name
                       /\ g.email = c.email /\ g.phone = c.phone /\ g.title = c.title
                       /\ g.seniority = c.seniority /\ g.linkedin_url = c.linkedin_url
            /\ trow.job_title = tjob.title /\ trow.company_domain = tlead.company_domain

\* the row of a lead with six attached contacts, the first two different
C15_Witness ==
    /\ top = "to_csv_row" /\ Len(tlead.contacts) = 6
    /\ Len(trow.contact) = 5
    /\ trow.contact[1] # trow.contact[2]

TransportFailure == tresponse.kind = "exception"

HttpErrorStatus == tresponse.kind = "response" /\ tresponse.status_code >= 400

\* C19: when requests.post fails at transport level, or the API answers with an
\* authentication, rate-limit or other HTTP error status, enrich_company
\* returns the empty list and lets no exception through.
C19_TransportFailureReturnsEmpty ==
    /\ TransportFailure => (tcall = "returned" /\ tresult = <<>> /\ traised = "")
    /\ HttpErrorStatus =>
           /\ tcall \in {"raise_for_status", "returned"}
           /\ tresult = <<>> /\ traised = ""

\* enrich_company has returned on a rate-limit answer whose body listed people
C19_Witness ==
    /\ tcall = "returned" /\ tresult = <<>>
    /\ tresponse.kind = "response" /\ tresponse.status_code = 429
    /\ tresponse.body = [kind |-> "object", data |-> [people |-> <<Pn_Ceo>>]]

RunCompleted == pc \in {"Exported", "EmptyBatch"}

\* C21 as stated: every run that completes has written exactly one export
\* file.  (It fails: a run whose table is empty writes none.)
C21_OneFilePerRun == RunCompleted => files = 1

\* C21: a run writes no file before it completes; a completed run has written
\* exactly one file when its table has at least one row, and none when no job
\* survived filtering or no lead survived qualification.
C21_OneFileUnlessEmpty ==
    /\ files \in {0, 1}
    /\ ~RunCompleted => files = 0
    /\ RunCompleted => (files = 1 <=> Len(df) > 0)
    /\ (RunCompleted /\ (qualified_jobs = <<>> \/ enriched_leads = <<>>)) => files = 0

\* a completed run whose only lead was rejected and that wrote no file
C21_Witness ==
    /\ pc = "Exported" /\ Len(qualified_jobs) = 1 /\ enriched_leads = <<>>
    /\ df = <<>> /\ files = 0 /\ exit_status = "exit 0"

\* the websites of the job source from which no domain is extracted
DomainlessWebsites ==
    {w \in {j.company_website : j \in SourceJobs} : ~HasDomainPattern(w)}

Domainless(i) == all_jobs[i].company_website \in DomainlessWebsites

\* C22: enrich_company is called only for a lead whose job's website gave a
\* domain; a lead without domain gets no call and no contacts, is summarized
\* all the same, and is rejected whatever its pain_score.
C22_EnrichOnlyWithDomain ==
    \A i \in 1..Len(all_jobs) :
        Domainless(i) =>
            /\ i \notin Range(enrich_calls)
            /\ (lead.job = i => (lead.contacts = <<>> /\ lead.company_domain = None))
            /\ (lead.job = i /\ pc = "qualify") => i \in Range(summary_calls)
            /\ Events("Qualified lead", i) = {}
            /\ \A k \in Events("Not qualified", i) :
                   log[k].n = 0 /\ i \in Range(summary_calls)
            /\ \A k \in 1..Len(enriched_leads) : enriched_leads[k].job # i

\* a lead of score 90 without website was summarized and rejected, no call made
C22_Witness ==
    /\ pc = "Exported" /\ Len(all_jobs) = 1 /\ Domainless(1)
    /\ all_jobs[1].pain_score = 90
    /\ enrich_calls = <<>> /\ summary_calls = <<1>>
    /\ Events("Not qualified", 1) # {}

\* C26: when run asks is_qualified, the pain_score of the lead's job is at
\* least MIN_PAIN_SCORE already, so the verdict depends on the contacts alone:
\* a lead is rejected exactly when it has fewer than MIN_CONTACTS_PER_COMPANY.
C26_ScoreConditionRedundant ==
    /\ pc \in {"enrich", "summarize", "qualify"} =>
           all_jobs[lead.job].pain_score >= MIN_PAIN_SCORE
    /\ pc = "qualify" =>
           (is_qualified(lead, all_jobs) <=>
                Len(lead.contacts) >= MIN_CONTACTS_PER_COMPANY)
    /\ \A k \in 1..Len(log) :
           /\ log[k].event = "Not qualified" =>
                  /\ log[k].n < MIN_CONTACTS_PER_COMPANY
                  /\ all_jobs[log[k].job].pain_score >= MIN_PAIN_SCORE
           /\ log[k].event = "Qualified lead" => log[k].n >= MIN_CONTACTS_PER_COMPANY

\* a lead whose job scored exactly 60 was rejected with two contacts
C26_Witness ==
    /\ pc = "create" /\ li = 2
    /\ all_jobs[qualified_jobs[1]].pain_score = 60
    /\ LastEvent = Logged("Not qualified", qualified_jobs[1], 2)

\* the number of times job i occurs in a sequence of calls
Calls(calls, i) == Cardinality({k \in 1..Len(calls) : calls[k] = i})

AtMostOneCallPerSurvivor ==
    \A i \in 1..Len(all_jobs) :
        /\ Calls(enrich_calls, i) <= 1 /\ Calls(summary_calls, i) <= 1
        /\ (Calls(enrich_calls, i) + Calls(summary_calls, i) > 0) =>
               i \in Range(qualified_jobs)

\* C23: a run that has been entered reaches Exported or EmptyBatch, whatever
\* the batch and whatever the gateways return or raise, and it makes at most
\* one enrichment call and at most one summarization call for each job that
\* survived filtering, and none for the others.
C23_RunTerminates ==
    /\ (pc = "ingest") ~> RunCompleted
    /\ []AtMostOneCallPerSurvivor

\* a run of two surviving jobs has ended, one call of each gateway per job
C23_Witness ==
    /\ pc = "Exported" /\ qualified_jobs = <<1, 2>>
    /\ enrich_calls = <<1, 2>> /\ summary_calls = <<1, 2>>
    /\ Events("Enrichment failed", 1) # {}

SameRequest(j, k) ==
    /\ ccalls[j].company_domain = ccalls[k].company_domain
    /\ ccalls[j].max_contacts = ccalls[k].max_contacts

\* the calls that made a lookup for this domain and max_contacts
Lookups(domain, n) ==
    {k \in 1..Len(ccalls) :
        ccalls[k].company_domain = domain /\ ccalls[k].max_contacts = n /\ ~ccalls[k].hit}

RaisedLookups == {k \in 1..Len(ccalls) : ccalls[k].raised}

\* C24 as stated: at most one lookup per (domain, max_contacts), and the cache
\* holds as many entries as api_calls counts.  (It fails: a lookup that raises
\* is counted but stores nothing, and the next call looks up again.)
C24_OneLookupPerKey ==
    /\ \A domain \in CacheDomains, n \in MaxContactsValues :
           Cardinality(Lookups(domain, n)) <= 1
    /\ get_stats.cache_hits + get_stats.api_calls = Len(ccalls)
    /\ get_stats.cache_size = get_stats.api_calls

\* C24: cache_hits + api_calls is the number of calls; the cache holds one
\* entry per lookup that returned; for every (domain, max_contacts) no lookup
\* is made after one that returned, and every later call with that key is a hit
\* that returns what that lookup returned, the empty list included; a lookup
\* that raised stored nothing, so the next call with its key looks up again.
C24_CacheOfReturnedLookups ==
    /\ get_stats.cache_hits + get_stats.api_calls = Len(ccalls)
    /\ get_stats.cache_size = get_stats.api_calls - Cardinality(RaisedLookups)
    /\ get_stats.credits_saved = Cardinality({k \in 1..Len(ccalls) : ccalls[k].hit})
    /\ \A j, k \in 1..Len(ccalls) :
           (j < k /\ SameRequest(j, k) /\ ~ccalls[j].hit /\ ~ccalls[j].raised) =>
               (ccalls[k].hit /\ ccalls[k].result = ccalls[j].result)
    /\ \A k \in 1..Len(ccalls) :
           /\ ccalls[k].raised => ~ccalls[k].hit
           /\ ccalls[k].hit <=>
                  \E j \in 1..(k - 1) :
                      SameRequest(j, k) /\ ~ccalls[j].hit /\ ~ccalls[j].raised
    /\ \A j, k \in 1..Len(ccalls) : ccalls[j].key = ccalls[k].key => SameRequest(j, k)

\* a failed search that returned [] was stored and served from the cache, after
\* a lookup with the same key had raised
C24_Witness ==
    /\ Len(ccalls) = 3
    /\ ccalls[1].raised /\ ccalls[1].key = ccalls[2].key /\ ccalls[2].key = ccalls[3].key
    /\ ~ccalls[2].hit /\ ccalls[2].result = <<>>
    /\ ccalls[3].hit /\ ccalls[3].result = <<>>
    /\ api_calls = 2 /\ cache_hits = 1

\* C25: enrich_batch_with_free_tier never makes more company searches than
\* free_tier_limit, and what it gathered before it stopped is in its result.
\* (It fails: a search that finds no contacts is not counted as a credit, so
\* the batch goes on searching beyond the limit.)
C25_WithinFreeTier ==
    /\ searches <= free_tier_limit
    /\ bpc = "returned" => Len(results) = credits_used

====
